---------------------------- MODULE Spec2Model ----------------------------
(***************************************************************************)
(* Chudnovsky-Pi: binary splitting with factored-integer cancellation,     *)
(* the sharded leaf phase, the tournament reduction of pgmp-chudnovsky.c   *)
(* and the pthread merge of perl-chudnovsky.c.                             *)
(*                                                                         *)
(* GMP integers (mpz_t) are unbounded; here they are sign and magnitude,   *)
(* the magnitude a little-endian sequence of limbs in base LimbBase with   *)
(* no leading zero limb, so that two mpz values are equal exactly when     *)
(* their records are equal.                                                *)
(***************************************************************************)
EXTENDS Integers, Sequences, FiniteSets, TLC

VARIABLES
    arg,          \* main's arguments: [digits, threads, ncpus]
    pc,           \* where main is
    digits, terms, threads, cores_depth, depth, cores_size, mid, nthrs,
    team,         \* threads the current parallel region runs on
    sieve_state,  \* "none", "built", "freed"
    pstack, qstack, gstack,   \* shard i -> [st, v]
    leaf,         \* shard i -> "todo", "run", "done" (the leaf parallel for)
    k,            \* stride of the current reduction round
    merge,        \* shard i -> "todo", "tasks", "done" (sum(i, i+k, gflag))
    task,         \* shard i -> task 1..3 of its sum -> [st, val]
    span,         \* shard i -> <<a, b>>, the term range its triple stands for
    mpf_pi, mpf_qi,   \* the integers handed to the float conversion
    fault,        \* an mpz_t or the sieve was used while not live
    diag,         \* diagnostics written to stderr by the argument checks
    cmd,          \* the command line and the machine: [argv, ncpus]
    exit_status,  \* the status the process exited with, -1 while it runs
    fl,           \* the mpf_t pi, qi, ci of main -> [st, val]
    fin,          \* thread of the final parallel region -> where it is
    ran,          \* [div, sqrt] -> the threads that ran my_div, my_sqrt_ui
    stdout,       \* what was written to stdout: "", "digits" or "columns"
    sieve_use,    \* [builds, frees, misuse]: what happened to the sieve
    merged,       \* the merges <<k, i>> that have completed
    gterms,       \* shard i -> the terms whose g went into gstack[i]
    op, inp, outp \* a function called on its own, its arguments, its result

mainVars == <<arg, pc, digits, terms, threads, cores_depth, depth, cores_size,
              mid, nthrs, team, sieve_state, pstack, qstack, gstack, leaf, k,
              merge, task, span, mpf_pi, mpf_qi, fault, diag, cmd,
              exit_status, fl, fin, ran, stdout, sieve_use, merged,
              gterms>>
finalVars == <<fl, fin, ran, stdout>>
histVars == <<sieve_use, merged, gterms>>
unitVars == <<op, inp, outp>>
vars     == <<mainVars, unitVars>>

\* ------------------------------------------------------------------------
\* Exact integers (the GMP primitives the program calls)
\* ------------------------------------------------------------------------

LimbBase == 2^15

RECURSIVE MagOfNat(_)
MagOfNat(n) == IF n = 0 THEN << >>
               ELSE <<n % LimbBase>> \o MagOfNat(n \div LimbBase)

RECURSIVE MagTrim(_)
MagTrim(a) == IF a = << >> THEN a
              ELSE IF a[Len(a)] # 0 THEN a
              ELSE MagTrim(SubSeq(a, 1, Len(a) - 1))

MagLimb(a, i) == IF i <= Len(a) THEN a[i] ELSE 0

RECURSIVE MagCmpFrom(_, _, _)
MagCmpFrom(a, b, i) ==
    IF i = 0 THEN 0
    ELSE IF a[i] < b[i] THEN -1
    ELSE IF a[i] > b[i] THEN 1
    ELSE MagCmpFrom(a, b, i - 1)

\* -1, 0, 1 as a < b, a = b, a > b (both trimmed)
MagCmp(a, b) ==
    IF Len(a) < Len(b) THEN -1
    ELSE IF Len(a) > Len(b) THEN 1
    ELSE MagCmpFrom(a, b, Len(a))

\* The limb loops below take the index from the length of what they have
\* produced so far.

RECURSIVE MagAddFrom(_, _, _, _)
MagAddFrom(a, b, carry, acc) ==
    LET i == Len(acc) + 1
    IN  IF i > Len(a) /\ i > Len(b)
        THEN (IF carry = 0 THEN acc ELSE Append(acc, carry))
        ELSE LET t == MagLimb(a, i) + MagLimb(b, i) + carry
             IN  MagAddFrom(a, b, t \div LimbBase, Append(acc, t % LimbBase))

MagAdd(a, b) == MagAddFrom(a, b, 0, << >>)

RECURSIVE MagSubFrom(_, _, _, _)
MagSubFrom(a, b, borrow, acc) ==
    LET i == Len(acc) + 1
    IN  IF i > Len(a) THEN acc
        ELSE LET t == a[i] - MagLimb(b, i) - borrow
             IN  IF t < 0
                 THEN MagSubFrom(a, b, 1, Append(acc, t + LimbBase))
                 ELSE MagSubFrom(a, b, 0, Append(acc, t))

\* a - b for a >= b
MagSub(a, b) == MagTrim(MagSubFrom(a, b, 0, << >>))

RECURSIVE MagMulLimbFrom(_, _, _, _)
MagMulLimbFrom(a, d, carry, acc) ==
    LET i == Len(acc) + 1
    IN  IF i > Len(a)
        THEN (IF carry = 0 THEN acc ELSE Append(acc, carry))
        ELSE LET t == a[i] * d + carry
             IN  MagMulLimbFrom(a, d, t \div LimbBase, Append(acc, t % LimbBase))

\* a * d for one limb 0 <= d < LimbBase
MagMulLimb(a, d) == IF d = 0 \/ a = << >> THEN << >>
                    ELSE MagMulLimbFrom(a, d, 0, << >>)

MagShift(a, n) == IF a = << >> THEN a ELSE [i \in 1..n |-> 0] \o a

\* sum over i in lo..hi of a[i] * b * LimbBase^(i-1)
RECURSIVE MagMulRange(_, _, _, _)
MagMulRange(a, b, lo, hi) ==
    IF lo = hi THEN MagShift(MagMulLimb(b, a[lo]), lo - 1)
    ELSE LET h == (lo + hi) \div 2
         IN  MagAdd(MagMulRange(a, b, lo, h), MagMulRange(a, b, h + 1, hi))

MagMul(a, b) == IF a = << >> \/ b = << >> THEN << >>
                ELSE IF Len(a) <= Len(b) THEN MagMulRange(a, b, 1, Len(a))
                ELSE MagMulRange(b, a, 1, Len(b))

\* the largest q in lo..hi with b*q <= r (b*lo <= r is given)
RECURSIVE MagQuoDigit(_, _, _, _)
MagQuoDigit(r, b, lo, hi) ==
    IF lo = hi THEN lo
    ELSE LET m == (lo + hi + 1) \div 2
         IN  IF MagCmp(MagMulLimb(b, m), r) <= 0
             THEN MagQuoDigit(r, b, m, hi)
             ELSE MagQuoDigit(r, b, lo, m - 1)

\* long division, most significant limb first: <<quotient, remainder>>
RECURSIVE MagDivFrom(_, _, _, _)
MagDivFrom(a, b, q, r) ==
    LET i == Len(a) - Len(q)
    IN  IF i = 0 THEN <<MagTrim(q), r>>
        ELSE LET r1 == MagTrim(<<a[i]>> \o r)
                 d  == MagQuoDigit(r1, b, 0, LimbBase - 1)
             IN  MagDivFrom(a, b, <<d>> \o q, MagSub(r1, MagMulLimb(b, d)))

MagDivMod(a, b) == MagDivFrom(a, b, << >>, << >>)

\* mpz_t values
Z(neg, mag) == [neg |-> neg /\ mag # << >>, mag |-> mag]

mpz_set_ui(n) == Z(FALSE, MagOfNat(n))

\* a defective mpz_neg: the sign is cleared
mpz_neg_abs(x) == Z(FALSE, x.mag)

mpz_neg(x) == Z(~x.neg, x.mag)

mpz_mul(x, y) == Z(x.neg # y.neg, MagMul(x.mag, y.mag))

mpz_mul_ui(x, n) == mpz_mul(x, mpz_set_ui(n))

mpz_add(x, y) ==
    IF x.neg = y.neg THEN Z(x.neg, MagAdd(x.mag, y.mag))
    ELSE IF MagCmp(x.mag, y.mag) >= 0 THEN Z(x.neg, MagSub(x.mag, y.mag))
    ELSE Z(y.neg, MagSub(y.mag, x.mag))

mpz_add_ui(x, n) == mpz_add(x, mpz_set_ui(n))

\* mpz_divexact(x, d): the quotient; the caller guarantees d divides x
mpz_divexact(x, d) == Z(x.neg # d.neg, MagDivMod(x.mag, d.mag)[1])

mpz_rem_is_zero(x, d) == MagDivMod(x.mag, d.mag)[2] = << >>


\* ------------------------------------------------------------------------
\* Program constants (pgmp-chudnovsky.h)
\* ------------------------------------------------------------------------

A == 13591409
B == 545140134
C == 640320
D == 12

\* 3*5*23*29, the odd part of C (bs, base case)
OddC == 3 * 5 * 23 * 29

min(x, y) == IF x < y THEN x ELSE y
max(x, y) == IF x > y THEN x ELSE y

\* ------------------------------------------------------------------------
\* Smallest-factor sieve: sieve_t s[n/2], entry v/2 for the odd integer v
\* ------------------------------------------------------------------------

\* (uint_t) sqrt(n)
ISqrt(n) == CHOOSE m \in 0..n : m * m <= n /\ (m + 1) * (m + 1) > n

\* memset(s, 0, ...); s[1/2].fac = 1; s[1/2].pow = 1
SieveZero(n) ==
    [idx \in 0..(n \div 2 - 1) |->
        IF idx = 0 THEN [fac |-> 1, pow |-> 1, nxt |-> 0]
                   ELSE [fac |-> 0, pow |-> 0, nxt |-> 0]]

\* a defective SieveMark: the multiplicity branch left out
SieveMarkFlat(s, i, j, kk) ==
    IF s[j \div 2].fac = 0
    THEN [s EXCEPT ![j \div 2] = [fac |-> i, pow |-> 1, nxt |-> s[kk].nxt]]
    ELSE s

\* body of the inner loop for one (j, k); kk is the loop's k
SieveMark(s, i, j, kk) ==
    IF s[j \div 2].fac = 0
    THEN [s EXCEPT ![j \div 2] =
            IF s[kk].fac = i
            THEN [fac |-> i, pow |-> s[kk].pow + 1, nxt |-> s[kk].nxt]
            ELSE [fac |-> i, pow |-> 1, nxt |-> kk]]
    ELSE s

\* for (j=i*i, k=i/2; j<=n; j+=i+i, k++): iterations lo..hi of the loop, in
\* order (iteration t has j = i*i + 2*i*t and k = i/2 + t).  s[1/2].fac is 1
\* from before the loops and no iteration writes entry 0: the test on it only
\* makes the first half of the iterations be evaluated before the second.
RECURSIVE SieveInner(_, _, _, _)
SieveInner(s, i, lo, hi) ==
    IF lo > hi THEN s
    ELSE IF lo = hi THEN SieveMark(s, i, i * i + 2 * i * lo, i \div 2 + lo)
    ELSE LET h  == (lo + hi) \div 2
             s1 == SieveInner(s, i, lo, h)
         IN  IF s1[0].fac = 1 THEN SieveInner(s1, i, h + 1, hi) ELSE s1

\* body of the outer loop for one odd i
SieveOuterStep(s, i, n, m) ==
    IF s[i \div 2].fac = 0
    THEN LET s1 == [s EXCEPT ![i \div 2] = [fac |-> i, pow |-> 1, nxt |-> @.nxt]]
         IN  IF i <= m
             THEN SieveInner(s1, i, 0, (n - i * i) \div (2 * i))
             ELSE s1
    ELSE s

\* for (i=3; i<=n; i+=2): iterations lo..hi in order (iteration t has i = 3+2t)
RECURSIVE SieveOuter(_, _, _, _, _)
SieveOuter(s, n, m, lo, hi) ==
    IF lo > hi THEN s
    ELSE IF lo = hi THEN SieveOuterStep(s, 3 + 2 * lo, n, m)
    ELSE LET h  == (lo + hi) \div 2
             s1 == SieveOuter(s, n, m, lo, h)
         IN  IF s1[0].fac = 1 THEN SieveOuter(s1, n, m, h + 1, hi) ELSE s1

\* the table for an even n >= 2 (main always passes an even sieve_size)
build_sieve(n) ==
    IF n < 3 THEN SieveZero(n)
    ELSE SieveOuter(SieveZero(n), n, ISqrt(n), 0, (n - 3) \div 2)

\* a defective SieveSize: the table sized for the terms alone
SieveSizeTerms(tm) == tm * 6

\* sieve_size = max(3*5*23*29+1, terms*6)
SieveSize(tm) == max(OddC + 1, tm * 6)

\* the table main builds while 6*terms <= 3*5*23*29+1, built once
MainSieve == build_sieve(OddC + 1)

TheSieve(tm) == IF SieveSize(tm) = OddC + 1 THEN MainSieve
                ELSE build_sieve(SieveSize(tm))

\* ------------------------------------------------------------------------
\* Factored integers: fac_t as the sequence of its num_facs (fac, pow) pairs
\* ------------------------------------------------------------------------

RECURSIVE FacChain(_, _, _, _)
FacChain(s, idx, pow, acc) ==
    IF idx = 0 THEN acc
    ELSE FacChain(s, s[idx].nxt, pow,
                  Append(acc, [fac |-> s[idx].fac, pow |-> s[idx].pow * pow]))

\* f = base^pow
fac_set_bp(s, base, pow) == FacChain(s, base \div 2, pow, << >>)

RECURSIVE FacMerge(_, _, _, _)
FacMerge(f, g, i, j) ==
    IF i <= Len(f) /\ j <= Len(g)
    THEN IF f[i].fac = g[j].fac
         THEN <<[fac |-> f[i].fac, pow |-> f[i].pow + g[j].pow]>>
              \o FacMerge(f, g, i + 1, j + 1)
         ELSE IF f[i].fac < g[j].fac
         THEN <<f[i]>> \o FacMerge(f, g, i + 1, j)
         ELSE <<g[j]>> \o FacMerge(f, g, i, j + 1)
    ELSE SubSeq(f, i, Len(f)) \o SubSeq(g, j, Len(g))

\* a defective fac_mul2: f's exponent kept for a prime of both
fac_mul2_keep(f, g) ==
    f \o SelectSeq(g, LAMBDA e : \A n \in 1..Len(f) : f[n].fac # e.fac)

\* r = f*g
fac_mul2(f, g) == FacMerge(f, g, 1, 1)

\* f *= g: fac_mul2(fmul, f, g), then f and fmul swap; the three buffers
\* on return
fac_mul(f, g, fmul) == [f |-> fac_mul2(f, g), g |-> g, fmul |-> f]

\* f *= base^pow: the new f
fac_mul_bp(s, f, base, pow) == fac_mul(f, fac_set_bp(s, base, pow), << >>).f

\* remove factors of power 0
fac_compact(f) == SelectSeq(f, LAMBDA e : e.pow > 0)

\* for (j=0; j<pow; j++) mpz_mul_ui(r, r, fac)
RECURSIVE BsMulPow(_, _, _)
BsMulPow(r, fac, pow) ==
    IF pow = 0 THEN r ELSE mpz_mul_ui(BsMulPow(r, fac, pow - 1), fac)

\* for (i=a; i<b; i++) ...   (entry i of the C array is fmul[i + 1] here)
RECURSIVE BsMulLinear(_, _, _, _)
BsMulLinear(r, a, b, fmul) ==
    IF a >= b THEN r
    ELSE BsMulPow(BsMulLinear(r, a, b - 1, fmul), fmul[b].fac, fmul[b].pow)

\* a defective bs_mul: each prime multiplied in once, whatever its power
bs_mul_flat(a, b, fmul) ==
    BsMulLinear(mpz_set_ui(1), a, b,
                [n \in 1..Len(fmul) |-> [fac |-> fmul[n].fac, pow |-> 1]])

\* convert factorized form to number: entries a..b-1 (0-based) of fmul
RECURSIVE bs_mul(_, _, _)
bs_mul(a, b, fmul) ==
    IF b - a <= 32 THEN BsMulLinear(mpz_set_ui(1), a, b, fmul)
    ELSE mpz_mul(bs_mul((a + b) \div 2, b, fmul), bs_mul(a, (a + b) \div 2, fmul))

\* a defective GcdLoop: the common power taken off fp only
RECURSIVE GcdLoopLeft(_, _, _, _)
GcdLoopLeft(fp, fg, i, j) ==
    IF i <= Len(fp) /\ j <= Len(fg)
    THEN IF fp[i].fac = fg[j].fac
         THEN LET c == min(fp[i].pow, fg[j].pow)
                  r == GcdLoopLeft([fp EXCEPT ![i].pow = @ - c], fg, i + 1, j + 1)
              IN  <<r[1], r[2], <<[fac |-> fp[i].fac, pow |-> c]>> \o r[3]>>
         ELSE IF fp[i].fac < fg[j].fac
         THEN GcdLoopLeft(fp, fg, i + 1, j)
         ELSE GcdLoopLeft(fp, fg, i, j + 1)
    ELSE <<fp, fg, << >> >>

\* the two-pointer loop of fac_remove_gcd from (i, j): <<fp, fg, fmul>> on
\* exit, fmul the entries written from here on
RECURSIVE GcdLoop(_, _, _, _)
GcdLoop(fp, fg, i, j) ==
    IF i <= Len(fp) /\ j <= Len(fg)
    THEN IF fp[i].fac = fg[j].fac
         THEN LET c == min(fp[i].pow, fg[j].pow)
                  r == GcdLoop([fp EXCEPT ![i].pow = @ - c],
                               [fg EXCEPT ![j].pow = @ - c], i + 1, j + 1)
              IN  <<r[1], r[2], <<[fac |-> fp[i].fac, pow |-> c]>> \o r[3]>>
         ELSE IF fp[i].fac < fg[j].fac
         THEN GcdLoop(fp, fg, i + 1, j)
         ELSE GcdLoop(fp, fg, i, j + 1)
    ELSE <<fp, fg, << >> >>

\* a defective fac_remove_gcd: g and fg left as they were
fac_remove_gcd_p(p, fp, g, fg) ==
    LET l    == GcdLoop(fp, fg, 1, 1)
        fmul == l[3]
    IN  IF Len(fmul) # 0
        THEN LET gcd == bs_mul(0, Len(fmul), fmul)
             IN  [p  |-> mpz_divexact(p, gcd), fp |-> fac_compact(l[1]),
                  g  |-> g, fg |-> fg,
                  gcd |-> gcd, fmul |-> fmul]
        ELSE [p |-> p, fp |-> l[1], g |-> g, fg |-> l[2],
              gcd |-> mpz_set_ui(0), fmul |-> fmul]

\* f /= gcd(f,g), g /= gcd(f,g)
fac_remove_gcd(p, fp, g, fg) ==
    LET l    == GcdLoop(fp, fg, 1, 1)
        fmul == l[3]
    IN  IF Len(fmul) # 0
        THEN LET gcd == bs_mul(0, Len(fmul), fmul)
             IN  [p  |-> mpz_divexact(p, gcd), fp |-> fac_compact(l[1]),
                  g  |-> mpz_divexact(g, gcd), fg |-> fac_compact(l[2]),
                  gcd |-> gcd, fmul |-> fmul]
        ELSE [p |-> p, fp |-> l[1], g |-> g, fg |-> l[2],
              gcd |-> mpz_set_ui(0), fmul |-> fmul]

\* ------------------------------------------------------------------------
\* Binary splitting
\* ------------------------------------------------------------------------

\* i = b; while ((i & 1) == 0) i >>= 1;
RECURSIVE OddPart(_)
OddPart(i) == IF i % 2 = 0 THEN OddPart(i \div 2) ELSE i

\* a defective bs_base: fp1[0].pow[0]-- left out
bs_base_whole(s, b) ==
    LET p1  == mpz_mul_ui(mpz_mul_ui(mpz_mul_ui(mpz_mul_ui(mpz_set_ui(b), b), b),
                                     (C \div 24) * (C \div 24)), C * 24)
        g1  == mpz_mul_ui(mpz_mul_ui(mpz_set_ui(2 * b - 1), 6 * b - 1), 6 * b - 5)
        q0  == mpz_mul(mpz_add_ui(mpz_mul_ui(mpz_set_ui(b), B), A), g1)
        q1  == IF b % 2 = 1 THEN mpz_neg(q0) ELSE q0
        fp1 == fac_mul_bp(s, fac_set_bp(s, OddPart(b), 3), OddC, 3)
        fg1 == fac_mul_bp(s, fac_mul_bp(s, fac_set_bp(s, 2 * b - 1, 1),
                                        6 * b - 1, 1), 6 * b - 5, 1)
    IN  [p |-> p1, q |-> q1, g |-> g1, fp |-> fp1, fg |-> fg1]

\* the base case b-a == 1 of bs
bs_base(s, b) ==
    LET p1  == mpz_mul_ui(mpz_mul_ui(mpz_mul_ui(mpz_mul_ui(mpz_set_ui(b), b), b),
                                     (C \div 24) * (C \div 24)), C * 24)
        g1  == mpz_mul_ui(mpz_mul_ui(mpz_set_ui(2 * b - 1), 6 * b - 1), 6 * b - 5)
        q0  == mpz_mul(mpz_add_ui(mpz_mul_ui(mpz_set_ui(b), B), A), g1)
        q1  == IF b % 2 = 1 THEN mpz_neg(q0) ELSE q0
        fpa == fac_mul_bp(s, fac_set_bp(s, OddPart(b), 3), OddC, 3)
        fp1 == [fpa EXCEPT ![1].pow = @ - 1]
        fg1 == fac_mul_bp(s, fac_mul_bp(s, fac_set_bp(s, 2 * b - 1, 1),
                                        6 * b - 1, 1), 6 * b - 5, 1)
    IN  [p |-> p1, q |-> q1, g |-> g1, fp |-> fp1, fg |-> fg1]

\* a defective bs_mid: the product rounded up
bs_mid_up(a, b) == a + ((b - a) * 54 + 99) \div 100

\* mid = a + (b-a) * 0.54
bs_mid(a, b) == a + ((b - a) * 54) \div 100

\* the terms whose g is in the G that bs(a, b) leaves: g1 is multiplied by
\* gj only if (b < terms)
RECURSIVE GTerms(_, _, _)
GTerms(a, b, tm) ==
    IF b - a = 1 THEN {b}
    ELSE IF b < tm
    THEN GTerms(a, bs_mid(a, b), tm) \cup GTerms(bs_mid(a, b), b, tm)
    ELSE GTerms(a, bs_mid(a, b), tm)

\* a defective bs_merge: the common factor taken off pj and not off g1
bs_merge_half(L, R, b, tm, level) ==
    LET c   == IF level >= 4
               THEN fac_remove_gcd(R.p, R.fp, L.g, L.fg)
               ELSE [p |-> R.p, fp |-> R.fp, g |-> L.g, fg |-> L.fg,
                     fmul |-> << >>]
        qj  == mpz_mul(R.q, L.g)
        fp1 == fac_mul(L.fp, c.fp, c.fmul).f
        g1  == IF b < tm THEN mpz_mul(L.g, R.g) ELSE L.g
        fg1 == IF b < tm THEN fac_mul(L.fg, R.fg, L.fp).f ELSE L.fg
        q1  == mpz_add(mpz_mul(L.q, c.p), qj)
        p1  == mpz_mul(L.p, c.p)
    IN  [p |-> p1, q |-> q1, g |-> g1, fp |-> fp1, fg |-> fg1]

\* the recursive case of bs after its two recursive calls: L is
\* (p1,q1,g1,fp1,fg1) for [a,mid), R is (pj,qj,gj,fpj,fgj) for [mid,b)
bs_merge(L, R, b, tm, level) ==
    LET c   == IF level >= 4
               THEN fac_remove_gcd(R.p, R.fp, L.g, L.fg)
               ELSE [p |-> R.p, fp |-> R.fp, g |-> L.g, fg |-> L.fg,
                     fmul |-> << >>]
        qj  == mpz_mul(R.q, c.g)
        fp1 == fac_mul(L.fp, c.fp, c.fmul).f
        g1  == IF b < tm THEN mpz_mul(c.g, R.g) ELSE c.g
        fg1 == IF b < tm THEN fac_mul(c.fg, R.fg, L.fp).f ELSE c.fg
        q1  == mpz_add(mpz_mul(L.q, c.p), qj)
        p1  == mpz_mul(L.p, c.p)
    IN  [p |-> p1, q |-> q1, g |-> g1, fp |-> fp1, fg |-> fg1]

\* bs(p1,q1,g1,fp1,fg1, a, b, terms, level, ...) for a < b: the triple and
\* the factored twins it leaves in its first five arguments (tm is terms)
RECURSIVE bs(_, _, _, _, _)
bs(s, a, b, tm, level) ==
    IF b - a = 1 THEN bs_base(s, b)
    ELSE bs_merge(bs(s, a, bs_mid(a, b), tm, level + 1),
                  bs(s, bs_mid(a, b), b, tm, level + 1),
                  b, tm, level)

\* ------------------------------------------------------------------------
\* main (pgmp-chudnovsky.c, OpenMP build)
\* ------------------------------------------------------------------------

MaxTerms == 5
MaxThreads == 5
MaxCpus == 4

\* 32-bit build
MAX_DIGITS == 120000000

\* terms = digits/DIGITS_PER_ITER, DIGITS_PER_ITER = 14.1816474627254776555
\* (exact for digits < 2148)
TermsOf(d) == (d * 1000000) \div 14181647

\* n = 0; while ((1L << n) < x) n++;
RECURSIVE ShiftUntil(_, _)
ShiftUntil(n, x) == IF 2^n < x THEN ShiftUntil(n + 1, x) ELSE n
CeilLog2(x) == ShiftUntil(0, x)

\* a defective ClampThreads: the test for terms <= 0 left out
ClampThreadsNoZero(th, tm, ncpus) ==
    IF th < 1 THEN 1
    ELSE IF tm > 0 /\ tm < th /\ th <= ncpus THEN tm
    ELSE IF th > ncpus THEN ncpus
    ELSE th

\* the if / else-if chain that resets threads
ClampThreads(th, tm, ncpus) ==
    IF th < 1 \/ (tm <= 0 /\ th > 1) THEN 1
    ELSE IF tm > 0 /\ tm < th /\ th <= ncpus THEN tm
    ELSE IF th > ncpus THEN ncpus
    ELSE th

Zero    == mpz_set_ui(0)
None    == [st |-> "none", v |-> Zero]
Live(x) == [st |-> "live", v |-> x]
Cleared == [st |-> "cleared", v |-> Zero]

IsLive(x) == x.st = "live"

Shards == 0..(threads - 1)

\* the range bs_init is given for shard i
ShardA(i) == i * mid
ShardB(i) == IF i < threads - 1 THEN (i + 1) * mid ELSE terms

NoTask  == [st |-> "none", val |-> Zero]
NoTasks == [t \in 1..3 |-> NoTask]

\* an argument as the C library reads it: a decimal numeral, a word that
\* starts with "auto", or any other word with no leading digit
Num(n) == [kind |-> "num", val |-> n]
Auto == [kind |-> "auto", val |-> 0]
Text == [kind |-> "text", val |-> 0]

\* atoi and strtoull(.., NULL, 10) give 0 for a word with no leading digit
\* (the numerals given for digits are not negative)
atoi(tok) == IF tok.kind = "num" THEN tok.val ELSE 0
strtoull(tok) == IF tok.kind = "num" THEN tok.val ELSE 0

\* the command lines: argv[1..argc-1]
DigitArgs == {Num(15 * t) : t \in 0..MaxTerms} \cup {Text}
OptionArgs == {Num(0), Num(1), Text}
ThreadArgs == {Num(t) : t \in (0 - 1)..MaxThreads} \cup {Auto, Text}
ArgvSet ==
    {<< >>}
    \cup {<<d>> : d \in DigitArgs}
    \cup {<<d, o>> : d \in DigitArgs, o \in OptionArgs}
    \cup {<<d, Num(1), t>> : d \in DigitArgs, t \in ThreadArgs}
    \cup {<<Num(15), Text, t>> : t \in ThreadArgs}

NoFloat == [st |-> "none", val |-> "none"]
NoFloats == [pi |-> NoFloat, qi |-> NoFloat, ci |-> NoFloat]
NoRuns == [div |-> << >>, sqrt |-> << >>]
NoSieveUse == [builds |-> 0, frees |-> 0, misuse |-> FALSE]

\* lines 191-203: main's locals as they are initialised
MainInit ==
    /\ cmd \in [argv : ArgvSet, ncpus : 1..MaxCpus]
    /\ arg = [digits |-> 100, out |-> 0, threads |-> 1, ncpus |-> cmd.ncpus]
    /\ pc = "args"
    /\ exit_status = 0 - 1
    /\ digits = 0 /\ terms = 0 /\ threads = 1
    /\ cores_depth = 0 /\ depth = 0 /\ cores_size = 0 /\ mid = 0 /\ nthrs = 0
    /\ team = 0
    /\ sieve_state = "none"
    /\ pstack = << >> /\ qstack = << >> /\ gstack = << >>
    /\ leaf = << >> /\ k = 0 /\ merge = << >> /\ task = << >> /\ span = << >>
    /\ mpf_pi = Zero /\ mpf_qi = Zero
    /\ fault = FALSE
    /\ diag = << >>
    /\ fl = NoFloats /\ fin = << >> /\ ran = NoRuns /\ stdout = ""
    /\ sieve_use = NoSieveUse /\ merged = {} /\ gterms = << >>

UnitIdle == op = "none" /\ inp = << >> /\ outp = << >>

Init == MainInit /\ UnitIdle

\* a defective NoArguments: argc <= 2 for argc == 1
NoArgumentsOffByOne == Len(cmd.argv) <= 1

\* if (argc == 1)
NoArguments == Len(cmd.argv) = 0

\* lines 205-232: no argument at all: the usage text and exit(1)
Usage ==
    /\ pc = "args"
    /\ NoArguments
    /\ diag' = diag \o <<"usage">>
    /\ exit_status' = 1
    /\ pc' = "exit"
    /\ UNCHANGED <<arg, digits, terms, threads, cores_depth, depth, cores_size,
                   mid, nthrs, team, sieve_state, pstack, qstack, gstack, leaf,
                   k, merge, task, span, mpf_pi, mpf_qi, fault, cmd, finalVars,
                   histVars, unitVars>>

\* threads = (strncmp(argv[3], "auto", 4) == 0) ? ncpus : atoi(argv[3])
ThreadsArg(tok, ncpus) == IF tok.kind = "auto" THEN ncpus ELSE atoi(tok)

\* lines 234-239: the arguments that are there are converted
ParseArgs ==
    /\ pc = "args"
    /\ ~NoArguments
    /\ arg' = [digits  |-> strtoull(cmd.argv[1]),
               out     |-> IF Len(cmd.argv) > 1 THEN atoi(cmd.argv[2]) ELSE arg.out,
               threads |-> IF Len(cmd.argv) > 2
                           THEN ThreadsArg(cmd.argv[3], arg.ncpus)
                           ELSE arg.threads,
               ncpus   |-> arg.ncpus]
    /\ pc' = "start"
    /\ UNCHANGED <<digits, terms, threads, cores_depth, depth, cores_size,
                   mid, nthrs, team, sieve_state, pstack, qstack, gstack, leaf,
                   k, merge, task, span, mpf_pi, mpf_qi, fault, diag, cmd,
                   exit_status, finalVars, histVars, unitVars>>

\* lines 241-267: digits, terms, threads, cores_depth, depth, cores_size
Start ==
    /\ pc = "start"
    /\ LET d  == IF arg.digits > MAX_DIGITS THEN MAX_DIGITS ELSE arg.digits
           tm == TermsOf(d)
           th == ClampThreads(arg.threads, tm, arg.ncpus)
       IN  /\ digits' = d
           /\ terms' = tm
           /\ threads' = th
           /\ cores_depth' = CeilLog2(th)
           /\ depth' = CeilLog2(tm) + 1
           /\ cores_size' = 2^CeilLog2(th)
           /\ diag' = (IF arg.digits > MAX_DIGITS THEN <<"digits reset">> ELSE << >>)
                      \o (IF th # arg.threads THEN <<"threads reset">> ELSE << >>)
    /\ pc' = "sieve"
    /\ UNCHANGED <<arg, mid, nthrs, team, sieve_state, pstack, qstack, gstack,
                   leaf, k, merge, task, mpf_pi, mpf_qi, fault, span, unitVars,
                   cmd, exit_status, finalVars, histVars>>

\* lines 282-286
BuildSieve ==
    /\ pc = "sieve"
    /\ sieve_state' = IF terms > 0 THEN "built" ELSE sieve_state
    /\ pc' = "alloc"
    /\ sieve_use' = IF terms > 0
                    THEN [sieve_use EXCEPT !.builds = @ + 1,
                                           !.misuse = @ \/ sieve_state # "none"]
                    ELSE sieve_use
    /\ UNCHANGED <<arg, digits, terms, threads, cores_depth, depth, cores_size,
                   mid, nthrs, team, pstack, qstack, gstack, leaf, k, merge,
                   task, mpf_pi, mpf_qi, fault, diag, span, unitVars,
                   cmd, exit_status, finalVars, merged, gterms>>

\* lines 293-299, and the test of line 302
AllocStacks ==
    /\ pc = "alloc"
    /\ pstack' = [i \in Shards |-> IF i = 0 THEN Live(Zero) ELSE None]
    /\ qstack' = [i \in Shards |-> IF i = 0 THEN Live(Zero) ELSE None]
    /\ gstack' = [i \in Shards |-> IF i = 0 THEN Live(Zero) ELSE None]
    /\ pc' = IF terms <= 0 THEN "base" ELSE "shards"
    /\ UNCHANGED <<arg, digits, terms, threads, cores_depth, depth, cores_size,
                   mid, nthrs, team, sieve_state, leaf, k, merge, task,
                   mpf_pi, mpf_qi, fault, diag, span, unitVars,
                   cmd, exit_status, finalVars, histVars>>

\* lines 303-311: terms <= 0
BaseTriple ==
    /\ pc = "base"
    /\ pstack' = [pstack EXCEPT ![0] = Live(mpz_set_ui(1))]
    /\ qstack' = [qstack EXCEPT ![0] = Live(mpz_set_ui(0))]
    /\ gstack' = [gstack EXCEPT ![0] = Live(mpz_set_ui(1))]
    /\ pc' = "clear_g"
    /\ UNCHANGED <<arg, digits, terms, threads, cores_depth, depth, cores_size,
                   mid, nthrs, team, sieve_state, leaf, k, merge, task,
                   mpf_pi, mpf_qi, fault, diag, span, unitVars,
                   cmd, exit_status, finalVars, histVars>>

\* lines 314-322
InitShards ==
    /\ pc = "shards"
    /\ mid' = terms \div threads
    /\ pstack' = [i \in Shards |-> IF i = 0 THEN pstack[i] ELSE Live(Zero)]
    /\ qstack' = [i \in Shards |-> IF i = 0 THEN qstack[i] ELSE Live(Zero)]
    /\ gstack' = [i \in Shards |-> IF i = 0 THEN gstack[i] ELSE Live(Zero)]
    /\ nthrs' = IF threads < arg.ncpus THEN threads ELSE arg.ncpus
    /\ pc' = "leaf_fork"
    /\ UNCHANGED <<arg, digits, terms, threads, cores_depth, depth, cores_size,
                   team, sieve_state, leaf, k, merge, task, mpf_pi, mpf_qi,
                   fault, diag, span, unitVars,
                   cmd, exit_status, finalVars, histVars>>

\* line 325: the parallel region gets between 1 and nthrs threads
LeafFork ==
    /\ pc = "leaf_fork"
    /\ team' \in 1..nthrs
    /\ leaf' = [i \in Shards |-> "todo"]
    /\ span' = [i \in Shards |-> <<0, 0>>]
    /\ gterms' = [i \in Shards |-> {}]
    /\ pc' = "leaf"
    /\ UNCHANGED <<arg, digits, terms, threads, cores_depth, depth, cores_size,
                   mid, nthrs, sieve_state, pstack, qstack, gstack, k, merge,
                   task, mpf_pi, mpf_qi, fault, diag, unitVars,
                   cmd, exit_status, finalVars, sieve_use, merged>>

Running == {i \in Shards : leaf[i] = "run"}

\* a thread of the team takes iteration i and enters bs_init; with an empty
\* range bs recurses on (a, a) without end and the process dies
LeafStart(i) ==
    /\ pc = "leaf"
    /\ leaf[i] = "todo"
    /\ Cardinality(Running) < team
    /\ IF ShardA(i) < ShardB(i)
       THEN /\ leaf' = [leaf EXCEPT ![i] = "run"]
            /\ pc' = pc
       ELSE /\ leaf' = leaf
            /\ pc' = "abort"
    /\ fault' = (fault \/ sieve_state # "built")
    /\ sieve_use' = [sieve_use EXCEPT !.misuse = @ \/ sieve_state # "built"]
    /\ UNCHANGED <<arg, digits, terms, threads, cores_depth, depth, cores_size,
                   mid, nthrs, team, sieve_state, pstack, qstack, gstack, k,
                   merge, task, mpf_pi, mpf_qi, diag, span, unitVars,
                   cmd, exit_status, finalVars, merged, gterms>>

\* bs_init returns: (pstack[i], qstack[i], gstack[i]) hold the shard's triple
LeafEnd(i) ==
    /\ pc = "leaf"
    /\ leaf[i] = "run"
    /\ LET r == bs(TheSieve(terms), ShardA(i), ShardB(i), terms, cores_depth)
       IN  /\ pstack' = [pstack EXCEPT ![i] = Live(r.p)]
           /\ qstack' = [qstack EXCEPT ![i] = Live(r.q)]
           /\ gstack' = [gstack EXCEPT ![i] = Live(r.g)]
    /\ leaf' = [leaf EXCEPT ![i] = "done"]
    /\ span' = [span EXCEPT ![i] = <<ShardA(i), ShardB(i)>>]
    /\ gterms' = [gterms EXCEPT ![i] = GTerms(ShardA(i), ShardB(i), terms)]
    /\ fault' = (fault \/ sieve_state # "built" \/ ~IsLive(pstack[i])
                 \/ ~IsLive(qstack[i]) \/ ~IsLive(gstack[i]))
    /\ sieve_use' = [sieve_use EXCEPT !.misuse = @ \/ sieve_state # "built"]
    /\ UNCHANGED <<arg, pc, digits, terms, threads, cores_depth, depth,
                   cores_size, mid, nthrs, team, sieve_state, k, merge, task,
                   mpf_pi, mpf_qi, diag, unitVars,
                   cmd, exit_status, finalVars, merged>>

\* a defective LeafDone: the parallel for left when one iteration is over
LeafDoneAny == \E i \in Shards : leaf[i] = "done"

\* the iterations the end of the parallel for waits for
LeafDone == \A i \in Shards : leaf[i] = "done"

\* the end of the parallel for
LeafJoin ==
    /\ pc = "leaf"
    /\ LeafDone
    /\ pc' = "free"
    /\ UNCHANGED <<arg, digits, terms, threads, cores_depth, depth, cores_size,
                   mid, nthrs, team, sieve_state, pstack, qstack, gstack, leaf,
                   k, merge, task, mpf_pi, mpf_qi, fault, diag, span, unitVars,
                   cmd, exit_status, finalVars, histVars>>

\* line 339
FreeSieve ==
    /\ pc = "free"
    /\ sieve_state' = "freed"
    /\ fault' = (fault \/ sieve_state # "built")
    /\ pc' = "sum_fork"
    /\ sieve_use' = [sieve_use EXCEPT !.frees = @ + 1,
                                      !.misuse = @ \/ sieve_state # "built"]
    /\ UNCHANGED <<arg, digits, terms, threads, cores_depth, depth, cores_size,
                   mid, nthrs, team, pstack, qstack, gstack, leaf, k, merge,
                   task, mpf_pi, mpf_qi, diag, span, unitVars,
                   cmd, exit_status, finalVars, merged, gterms>>

\* a defective RoundSet: the loop stepping by k instead of 2*k
RoundSetEvery(kk) == {i \in Shards : i % kk = 0 /\ i + kk < threads}

\* the merges of the round with stride kk
RoundSet(kk) == {i \in Shards : i % (2 * kk) = 0 /\ i + kk < threads}

NewRound == [i \in Shards |-> "todo"]

\* line 346-348: the parallel region and k = 1
SumFork ==
    /\ pc = "sum_fork"
    /\ team' \in 1..nthrs
    /\ k' = 1
    /\ merge' = NewRound
    /\ task' = [i \in Shards |-> NoTasks]
    /\ pc' = IF 1 < cores_size THEN "sum" ELSE "clear_g"
    /\ UNCHANGED <<arg, digits, terms, threads, cores_depth, depth, cores_size,
                   mid, nthrs, sieve_state, pstack, qstack, gstack, leaf,
                   mpf_pi, mpf_qi, fault, diag, span, unitVars,
                   cmd, exit_status, finalVars, histVars>>

InSum == {i \in Shards : merge[i] = "tasks"}

\* a thread takes iteration i of the omp for and creates the three tasks of
\* sum(i, i+k, gflag)
MergeStart(i) ==
    /\ pc = "sum"
    /\ i \in RoundSet(k)
    /\ merge[i] = "todo"
    /\ Cardinality(InSum) < team
    /\ merge' = [merge EXCEPT ![i] = "tasks"]
    /\ task' = [task EXCEPT ![i] = [t \in 1..3 |-> [st |-> "new", val |-> Zero]]]
    /\ UNCHANGED <<arg, pc, digits, terms, threads, cores_depth, depth,
                   cores_size, mid, nthrs, team, sieve_state, pstack, qstack,
                   gstack, leaf, k, mpf_pi, mpf_qi, fault, diag, span, unitVars,
                   cmd, exit_status, finalVars, histVars>>

RunningTasks == {it \in Shards \X (1..3) : task[it[1]][it[2]].st = "run"}

\* a defective TaskOperands: the third task as mpz_mul(qi, qi, gi)
TaskOperandsSameQ(i, t) ==
    IF t = 1 THEN <<(<<"p", i>>), (<<"p", i + k>>)>>
    ELSE IF t = 2 THEN <<(<<"q", i>>), (<<"p", i + k>>)>>
    ELSE <<(<<"q", i>>), (<<"g", i>>)>>

\* the integers <<x1, x2>> of the mpz_mul(x1, x1, x2) of task t of sum(i, i+k):
\* mpz_mul(pi, pi, pk), mpz_mul(qi, qi, pk), mpz_mul(qk, qk, gi)
TaskOperands(i, t) ==
    IF t = 1 THEN <<(<<"p", i>>), (<<"p", i + k>>)>>
    ELSE IF t = 2 THEN <<(<<"q", i>>), (<<"p", i + k>>)>>
    ELSE <<(<<"q", i + k>>), (<<"g", i>>)>>

\* the slot of the stacks named by loc
StackSlot(loc) ==
    IF loc[1] = "p" THEN pstack[loc[2]]
    ELSE IF loc[1] = "q" THEN qstack[loc[2]]
    ELSE gstack[loc[2]]

\* the operands the task t of sum(i, i+k) reads: <<x1, x2>> of mpz_mul(x1, x1, x2)
TaskReads(i, t) ==
    <<StackSlot(TaskOperands(i, t)[1]), StackSlot(TaskOperands(i, t)[2])>>

\* a thread starts task t: mpz_mul reads its operands
TaskStart(i, t) ==
    /\ pc = "sum"
    /\ merge[i] = "tasks"
    /\ task[i][t].st = "new"
    /\ Cardinality(RunningTasks) < team
    /\ LET o == TaskReads(i, t)
       IN  /\ task' = [task EXCEPT ![i][t] =
                          [st |-> "run", val |-> mpz_mul(o[1].v, o[2].v)]]
           /\ fault' = (fault \/ ~IsLive(o[1]) \/ ~IsLive(o[2]))
    /\ UNCHANGED <<arg, pc, digits, terms, threads, cores_depth, depth,
                   cores_size, mid, nthrs, team, sieve_state, pstack, qstack,
                   gstack, leaf, k, merge, mpf_pi, mpf_qi, diag, span, unitVars,
                   cmd, exit_status, finalVars, histVars>>

\* task t ends: mpz_mul has written its result
TaskEnd(i, t) ==
    /\ pc = "sum"
    /\ task[i][t].st = "run"
    /\ task' = [task EXCEPT ![i][t].st = "done"]
    /\ LET x1 == TaskOperands(i, t)[1]
       IN  /\ pstack' = IF x1[1] = "p"
                        THEN [pstack EXCEPT ![x1[2]].v = task[i][t].val]
                        ELSE pstack
           /\ qstack' = IF x1[1] = "q"
                        THEN [qstack EXCEPT ![x1[2]].v = task[i][t].val]
                        ELSE qstack
    /\ UNCHANGED <<arg, pc, digits, terms, threads, cores_depth, depth,
                   cores_size, mid, nthrs, team, sieve_state, gstack, leaf, k,
                   merge, mpf_pi, mpf_qi, fault, diag, span, unitVars,
                   cmd, exit_status, finalVars, histVars>>

\* a defective GFlag: G is not merged either when one more shard follows
GFlagStrict(i) == i + 2 * k < threads - 1

\* int gflag = (i+2*k < threads) ? 1 : 0;
GFlag(i) == i + 2 * k < threads

\* a defective TasksDone: sum without its taskwait
TasksNotAwaited(i) == \A t \in 1..3 : task[i][t].st \in {"new", "run", "done"}

\* the tasks sum waits for at its taskwait
TasksDone(i) == \A t \in 1..3 : task[i][t].st = "done"

\* lines 85-100: after the taskwait
MergeJoin(i) ==
    /\ pc = "sum"
    /\ merge[i] = "tasks"
    /\ TasksDone(i)
    /\ pstack' = [pstack EXCEPT ![i + k] = Cleared]
    /\ qstack' = [qstack EXCEPT ![i].v = mpz_add(qstack[i].v, qstack[i + k].v),
                                ![i + k] = Cleared]
    /\ gstack' = [gstack EXCEPT
                    ![i].v = IF GFlag(i) THEN mpz_mul(gstack[i].v, gstack[i + k].v)
                             ELSE @,
                    ![i + k] = Cleared]
    /\ fault' = (fault \/ ~IsLive(pstack[i + k]) \/ ~IsLive(qstack[i])
                 \/ ~IsLive(qstack[i + k]) \/ ~IsLive(gstack[i + k])
                 \/ (GFlag(i) /\ ~IsLive(gstack[i])))
    /\ merge' = [merge EXCEPT ![i] = "done"]
    /\ task' = [task EXCEPT ![i] = NoTasks]
    /\ span' = [span EXCEPT ![i] = <<span[i][1], span[i + k][2]>>]
    /\ merged' = merged \cup {<<k, i>>}
    /\ gterms' = [gterms EXCEPT ![i] = IF GFlag(i) THEN @ \cup gterms[i + k]
                                       ELSE @]
    /\ UNCHANGED <<arg, pc, digits, terms, threads, cores_depth, depth,
                   cores_size, mid, nthrs, team, sieve_state, leaf, k, mpf_pi,
                   mpf_qi, diag, unitVars,
                   cmd, exit_status, finalVars, sieve_use>>

\* a defective RoundDone: the round left when its merges have all begun
RoundDoneBegun == \A i \in RoundSet(k) : merge[i] # "todo"

\* the merges the barrier of the round waits for
RoundDone == \A i \in RoundSet(k) : merge[i] = "done"

\* the barrier that ends a round, k *= 2 and the test k < cores_size
RoundBarrier ==
    /\ pc = "sum"
    /\ RoundDone
    /\ k' = 2 * k
    /\ merge' = NewRound
    /\ pc' = IF 2 * k < cores_size THEN "sum" ELSE "clear_g"
    /\ UNCHANGED <<arg, digits, terms, threads, cores_depth, depth, cores_size,
                   mid, nthrs, team, sieve_state, pstack, qstack, gstack, leaf,
                   task, mpf_pi, mpf_qi, fault, diag, span, unitVars,
                   cmd, exit_status, finalVars, histVars>>

\* line 374
ClearG ==
    /\ pc = "clear_g"
    /\ gstack' = [gstack EXCEPT ![0] = Cleared]
    /\ fault' = (fault \/ ~IsLive(gstack[0]))
    /\ pc' = "convert"
    /\ UNCHANGED <<arg, digits, terms, threads, cores_depth, depth, cores_size,
                   mid, nthrs, team, sieve_state, pstack, qstack, leaf, k,
                   merge, task, mpf_pi, mpf_qi, diag, span, unitVars,
                   cmd, exit_status, finalVars, histVars>>

\* lines 384-396: q += A*p, p *= C/D, both handed on as floats and cleared
Convert ==
    /\ pc = "convert"
    /\ mpf_qi' = mpz_add(qstack[0].v, mpz_mul_ui(pstack[0].v, A))
    /\ mpf_pi' = mpz_mul_ui(pstack[0].v, C \div D)
    /\ pstack' = [pstack EXCEPT ![0] = Cleared]
    /\ qstack' = [qstack EXCEPT ![0] = Cleared]
    /\ fault' = (fault \/ ~IsLive(pstack[0]) \/ ~IsLive(qstack[0]))
    /\ fl' = [fl EXCEPT !.pi = [st |-> "live", val |-> "p"],
                        !.qi = [st |-> "live", val |-> "q"]]
    /\ pc' = "final"
    /\ UNCHANGED <<arg, digits, terms, threads, cores_depth, depth, cores_size,
                   mid, nthrs, team, sieve_state, gstack, leaf, k, merge, task,
                   diag, span, unitVars,
                   cmd, exit_status, fin, ran, stdout, histVars>>

\* the main part of the program every final step leaves alone
beforeFinal == <<arg, digits, terms, threads, cores_depth, depth, cores_size,
                 mid, sieve_state, pstack, qstack, gstack, leaf, k, merge,
                 task, span, mpf_pi, mpf_qi, diag, cmd, histVars, unitVars>>

\* lines 401-406: nthrs = (threads > 1) ? 2 : 1 and the parallel region
FinalFork ==
    /\ pc = "final"
    /\ nthrs' = IF threads > 1 THEN 2 ELSE 1
    /\ team' \in 1..nthrs'
    /\ fin' = [tid \in 0..(team' - 1) |-> "begin"]
    /\ pc' = "div_sqrt"
    /\ UNCHANGED <<beforeFinal, exit_status, fl, ran, stdout, fault>>

\* if (tid == 0): my_div(qi, pi, qi) starts and reads pi and qi
DivStart(tid) ==
    /\ pc = "div_sqrt"
    /\ fin[tid] = "begin"
    /\ tid = 0
    /\ fin' = [fin EXCEPT ![tid] = "div"]
    /\ fault' = (fault \/ fl.pi.st # "live" \/ fl.qi.st # "live")
    /\ UNCHANGED <<beforeFinal, pc, exit_status, nthrs, team, fl, ran, stdout>>

\* the quotient a division leaves: pi/qi when it divides the two integers
Quotient(y, x) == IF y.val = "p" /\ x.val = "q" THEN "p/q" ELSE "garbage"

\* my_div returns: qi = pi/qi
DivEnd(tid) ==
    /\ pc = "div_sqrt"
    /\ fin[tid] = "div"
    /\ fl' = [fl EXCEPT !.qi.val = Quotient(fl.pi, fl.qi)]
    /\ ran' = [ran EXCEPT !.div = Append(@, tid)]
    /\ fin' = [fin EXCEPT ![tid] = "divided"]
    /\ fault' = (fault \/ fl.pi.st # "live" \/ fl.qi.st # "live")
    /\ UNCHANGED <<beforeFinal, pc, exit_status, nthrs, team, stdout>>

\* mpf_clear(pi), the end of the first if
ClearPi(tid) ==
    /\ pc = "div_sqrt"
    /\ fin[tid] = "divided"
    /\ fl' = [fl EXCEPT !.pi = [st |-> "cleared", val |-> "none"]]
    /\ fin' = [fin EXCEPT ![tid] = "test"]
    /\ fault' = (fault \/ fl.pi.st # "live")
    /\ UNCHANGED <<beforeFinal, pc, exit_status, nthrs, team, ran, stdout>>

\* a thread other than 0 passes the first if
SkipDiv(tid) ==
    /\ pc = "div_sqrt"
    /\ fin[tid] = "begin"
    /\ tid # 0
    /\ fin' = [fin EXCEPT ![tid] = "test"]
    /\ UNCHANGED <<beforeFinal, pc, exit_status, nthrs, team, fl, ran, stdout,
                   fault>>

\* a defective SqrtTest: the square root left to thread 1 alone
SqrtTestOne(tid) == tid = 1

\* if (tid == 1 || omp_get_num_threads() < 2)
SqrtTest(tid) == tid = 1 \/ team < 2

\* mpf_init(ci) and my_sqrt_ui(ci, C) starts
SqrtStart(tid) ==
    /\ pc = "div_sqrt"
    /\ fin[tid] = "test"
    /\ SqrtTest(tid)
    /\ fl' = [fl EXCEPT !.ci = [st |-> "live", val |-> "0"]]
    /\ fin' = [fin EXCEPT ![tid] = "sqrt"]
    /\ fault' = (fault \/ fl.ci.st = "live")
    /\ UNCHANGED <<beforeFinal, pc, exit_status, nthrs, team, ran, stdout>>

\* my_sqrt_ui returns: ci = sqrt(C)
SqrtEnd(tid) ==
    /\ pc = "div_sqrt"
    /\ fin[tid] = "sqrt"
    /\ fl' = [fl EXCEPT !.ci.val = "sqrt"]
    /\ ran' = [ran EXCEPT !.sqrt = Append(@, tid)]
    /\ fin' = [fin EXCEPT ![tid] = "end"]
    /\ fault' = (fault \/ fl.ci.st # "live")
    /\ UNCHANGED <<beforeFinal, pc, exit_status, nthrs, team, stdout>>

\* a thread that is not to take the square root passes the second if
SkipSqrt(tid) ==
    /\ pc = "div_sqrt"
    /\ fin[tid] = "test"
    /\ ~SqrtTest(tid)
    /\ fin' = [fin EXCEPT ![tid] = "end"]
    /\ UNCHANGED <<beforeFinal, pc, exit_status, nthrs, team, fl, ran, stdout,
                   fault>>

\* a defective FinalDone: the region left as soon as thread 0 is through
FinalDoneMaster == fin[0] = "end"

\* the threads the end of the parallel region waits for
FinalDone == \A tid \in DOMAIN fin : fin[tid] = "end"

\* the end of the parallel region
FinalJoin ==
    /\ pc = "div_sqrt"
    /\ FinalDone
    /\ pc' = "mul"
    /\ UNCHANGED <<beforeFinal, exit_status, nthrs, team, finalVars, fault>>

\* the product a multiplication leaves: pi when it is the quotient times the
\* square root
Product(y, x) == IF y.val = "p/q" /\ x.val = "sqrt" THEN "pi" ELSE "garbage"

\* lines 430-431: mpf_mul(qi, qi, ci); mpf_clear(ci)
FinalMul ==
    /\ pc = "mul"
    /\ fl' = [fl EXCEPT !.qi.val = Product(fl.qi, fl.ci),
                        !.ci = [st |-> "cleared", val |-> "none"]]
    /\ fault' = (fault \/ fl.qi.st # "live" \/ fl.ci.st # "live")
    /\ pc' = "output"
    /\ UNCHANGED <<beforeFinal, exit_status, nthrs, team, fin, ran, stdout>>

\* lines 448-468: the digits are written as the option asks, qi is cleared
\* and the process exits with 0
Output ==
    /\ pc = "output"
    /\ stdout' = IF arg.out = 1 THEN "digits"
                 ELSE IF arg.out >= 2 /\ arg.out <= 14 THEN "columns"
                 ELSE stdout
    /\ fl' = [fl EXCEPT !.qi = [st |-> "cleared", val |-> "none"]]
    /\ fault' = (fault \/ fl.qi.st # "live")
    /\ exit_status' = 0
    /\ pc' = "exit"
    /\ UNCHANGED <<beforeFinal, nthrs, team, fin, ran>>

Next ==
    \/ Usage
    \/ ParseArgs
    \/ Start
    \/ BuildSieve
    \/ AllocStacks
    \/ BaseTriple
    \/ InitShards
    \/ LeafFork
    \/ \E i \in Shards : LeafStart(i)
    \/ \E i \in Shards : LeafEnd(i)
    \/ LeafJoin
    \/ FreeSieve
    \/ SumFork
    \/ \E i \in Shards : MergeStart(i)
    \/ \E i \in Shards, t \in 1..3 : TaskStart(i, t)
    \/ \E i \in Shards, t \in 1..3 : TaskEnd(i, t)
    \/ \E i \in Shards : MergeJoin(i)
    \/ RoundBarrier
    \/ ClearG
    \/ Convert
    \/ FinalFork
    \/ \E tid \in DOMAIN fin : DivStart(tid)
    \/ \E tid \in DOMAIN fin : DivEnd(tid)
    \/ \E tid \in DOMAIN fin : ClearPi(tid)
    \/ \E tid \in DOMAIN fin : SkipDiv(tid)
    \/ \E tid \in DOMAIN fin : SqrtStart(tid)
    \/ \E tid \in DOMAIN fin : SqrtEnd(tid)
    \/ \E tid \in DOMAIN fin : SkipSqrt(tid)
    \/ FinalJoin
    \/ FinalMul
    \/ Output

Spec == Init /\ [][Next]_vars


\* ------------------------------------------------------------------------
\* The merge steps: sum (pgmp-chudnovsky.c, both builds) and chudnovsky_sum
\* (perl-chudnovsky.c) as the statements they run on the six integers
\* pi, qi, gi (shard i) and pk, qk, gk (shard k)
\* ------------------------------------------------------------------------

Mul(x1, x2) == [o |-> "mul", x1 |-> x1, x2 |-> x2]
Add(x1, x2) == [o |-> "add", x1 |-> x1, x2 |-> x2]
Clr(x1)     == [o |-> "clear", x1 |-> x1, x2 |-> x1]

\* mpz_mul(x1, x1, x2), mpz_add(x1, x1, x2), mpz_clear(x1); an operand that
\* was cleared leaves x1 without a value
Step(st, s) ==
    IF s.o = "clear" THEN [st EXCEPT ![s.x1] = Cleared]
    ELSE IF ~IsLive(st[s.x1]) \/ ~IsLive(st[s.x2]) THEN [st EXCEPT ![s.x1] = Cleared]
    ELSE IF s.o = "mul"
    THEN [st EXCEPT ![s.x1] = Live(mpz_mul(st[s.x1].v, st[s.x2].v))]
    ELSE [st EXCEPT ![s.x1] = Live(mpz_add(st[s.x1].v, st[s.x2].v))]

RECURSIVE Exec(_, _)
Exec(steps, st) ==
    IF steps = << >> THEN st ELSE Exec(Tail(steps), Step(st, Head(steps)))

\* shard i holds the triple L, shard k the triple R
Operands(L, R) ==
    [pi |-> Live(L.p), qi |-> Live(L.q), gi |-> Live(L.g),
     pk |-> Live(R.p), qk |-> Live(R.q), gk |-> Live(R.g)]

\* the three multiplications that run as tasks (sum) or as threads
\* (chudnovsky_sum)
SumTasks == <<Mul("pi", "pk"), Mul("qi", "pk"), Mul("qk", "gi")>>

Orders == {o \in [1..3 -> 1..3] : \A x, y \in 1..3 : x # y => o[x] # o[y]}

InOrder(o) == [n \in 1..3 |-> SumTasks[o[n]]]

\* a defective sum_serial: qi is multiplied by the updated pi
sum_serial_late(st, gflag) ==
    Exec(<<Mul("qk", "gi")>>
         \o (IF gflag THEN <<Mul("gi", "gk")>> ELSE << >>)
         \o <<Clr("gk"), Mul("pi", "pk"), Mul("qi", "pi"), Add("qi", "qk"),
              Clr("qk"), Clr("pk")>>, st)

\* sum, built without OpenMP
sum_serial(st, gflag) ==
    Exec(<<Mul("qk", "gi")>>
         \o (IF gflag THEN <<Mul("gi", "gk")>> ELSE << >>)
         \o <<Clr("gk"), Mul("qi", "pk"), Add("qi", "qk"), Clr("qk"),
              Mul("pi", "pk"), Clr("pk")>>, st)

\* sum, built with OpenMP: the tasks run in the order o, the rest after the
\* taskwait
sum_omp(st, gflag, o) ==
    Exec(InOrder(o)
         \o <<Clr("pk"), Add("qi", "qk"), Clr("qk")>>
         \o (IF gflag THEN <<Mul("gi", "gk")>> ELSE << >>)
         \o <<Clr("gk")>>, st)

\* the orders the multiplications of chudnovsky_sum can run in: a _mul whose
\* pthread_create failed runs at once in the caller
PthreadOrders(fail1, fail2) ==
    {o \in Orders :
        /\ fail1 => o[1] = 1
        /\ fail2 => \E x, y \in 1..3 : x < y /\ o[x] = 2 /\ o[y] = 3}

\* chudnovsky_sum from "sum" to the last mpz_clear(g2)
chudnovsky_sum(st, gflag, o) ==
    Exec(InOrder(o)
         \o <<Clr("pk"), Add("qi", "qk"), Clr("qk")>>
         \o (IF gflag THEN <<Mul("gi", "gk")>> ELSE <<Clr("gi")>>)
         \o <<Clr("gk")>>, st)

\* the triple a merge leaves in shard i
TripleOf(st) == [p |-> st.pi.v, q |-> st.qi.v, g |-> st.gi.v]

\* ------------------------------------------------------------------------
\* main built without OpenMP: the leaf splits and the reduction in program
\* order, for terms = tm > 0 and threads = th
\* ------------------------------------------------------------------------

\* a defective SerialLeaves: the last shard ends at threads*mid, not at terms
SerialLeavesShort(tm, th) ==
    LET md == tm \div th
    IN  [i \in 0..(th - 1) |->
            LET r == bs(TheSieve(tm), i * md, (i + 1) * md, tm, CeilLog2(th))
            IN  [p |-> r.p, q |-> r.q, g |-> r.g]]

SerialLeaves(tm, th) ==
    LET md == tm \div th
    IN  [i \in 0..(th - 1) |->
            LET r == bs(TheSieve(tm), i * md,
                        IF i < th - 1 THEN (i + 1) * md ELSE tm, tm, CeilLog2(th))
            IN  [p |-> r.p, q |-> r.q, g |-> r.g]]

\* for (i = 0; i < threads; i = i+2*k) if (i+k < threads) sum(i, i+k, gflag)
RECURSIVE SerialRound(_, _, _, _)
SerialRound(stk, th, kk, i) ==
    IF i >= th THEN stk
    ELSE IF i + kk < th
    THEN SerialRound(
            [stk EXCEPT ![i] = TripleOf(sum_serial(Operands(stk[i], stk[i + kk]),
                                                   i + 2 * kk < th))],
            th, kk, i + 2 * kk)
    ELSE SerialRound(stk, th, kk, i + 2 * kk)

\* for (k = 1; k < cores_size; k *= 2)
RECURSIVE SerialReduce(_, _, _)
SerialReduce(stk, th, kk) ==
    IF kk < 2^CeilLog2(th)
    THEN SerialReduce(SerialRound(stk, th, kk, 0), th, 2 * kk)
    ELSE stk

main_serial(tm, th) == SerialReduce(SerialLeaves(tm, th), th, 1)[0]


\* ------------------------------------------------------------------------
\* The sieve and the factored integers on their own: one call per behaviour,
\* inp the arguments, op the function called, outp what it leaves
\* ------------------------------------------------------------------------

\* main is not running
MainIdle ==
    /\ arg = [digits |-> 0, out |-> 0, threads |-> 0, ncpus |-> 1]
    /\ cmd = [argv |-> << >>, ncpus |-> 1]
    /\ exit_status = 0 - 1
    /\ fl = NoFloats /\ fin = << >> /\ ran = NoRuns /\ stdout = ""
    /\ sieve_use = NoSieveUse /\ merged = {} /\ gterms = << >>
    /\ pc = "idle"
    /\ digits = 0 /\ terms = 0 /\ threads = 1
    /\ cores_depth = 0 /\ depth = 0 /\ cores_size = 0 /\ mid = 0 /\ nthrs = 0
    /\ team = 0
    /\ sieve_state = "none"
    /\ pstack = << >> /\ qstack = << >> /\ gstack = << >>
    /\ leaf = << >> /\ k = 0 /\ merge = << >> /\ task = << >> /\ span = << >>
    /\ mpf_pi = Zero /\ mpf_qi = Zero
    /\ fault = FALSE
    /\ diag = << >>

\* sieve sizes 2, 4, .., 2*MaxHalfN next to the size main uses
MaxHalfN == 30

SieveSizes == {2 * h : h \in 1..MaxHalfN} \cup {OddC + 1}

SieveFor(n) == IF n = OddC + 1 THEN MainSieve ELSE build_sieve(n)

SieveInit ==
    /\ MainIdle
    /\ op = "call"
    /\ inp \in {[n |-> x[1], v |-> x[2]] :
                  x \in {y \in SieveSizes \X (1..(OddC + 1)) :
                            y[2] % 2 = 1 /\ y[2] <= y[1]}}
    /\ outp = << >>

\* build_sieve(n, sieve); fac_set_bp(f, v, 1)
SieveFactor ==
    /\ op = "call"
    /\ op' = "fac_set_bp"
    /\ outp' = fac_set_bp(SieveFor(inp.n), inp.v, 1)
    /\ UNCHANGED <<mainVars, inp>>

SieveNext == SieveFactor

SpecSieve == SieveInit /\ [][SieveNext]_vars

\* factored integers over the primes 3, 5, 7 with exponents up to MaxExp
MaxExp == 2

FacPrimes == <<3, 5, 7>>

FacOf(e) ==
    SelectSeq([n \in 1..Len(FacPrimes) |-> [fac |-> FacPrimes[n], pow |-> e[n]]],
              LAMBDA x : x.pow > 0)

FacInputs == {FacOf(e) : e \in [1..Len(FacPrimes) -> 0..MaxExp]}

FacInit ==
    /\ MainIdle
    /\ op = "call"
    /\ inp \in [f : FacInputs, g : FacInputs]
    /\ outp = << >>

\* fac_mul2(r, f, g)
FacMul2 ==
    /\ op = "call"
    /\ op' = "fac_mul2"
    /\ outp' = [r |-> fac_mul2(inp.f, inp.g)]
    /\ UNCHANGED <<mainVars, inp>>

\* fac_mul(f, g, fmul), fmul an empty scratch buffer
FacMul ==
    /\ op = "call"
    /\ op' = "fac_mul"
    /\ outp' = fac_mul(inp.f, inp.g, << >>)
    /\ UNCHANGED <<mainVars, inp>>

\* fac_remove_gcd(p, fp, g, fg) with fp = inp.f, fg = inp.g, g the integer of
\* fg and p twice the integer of fp (P carries the powers of 2 fp leaves out)
FacRemoveGcd ==
    /\ op = "call"
    /\ op' = "fac_remove_gcd"
    /\ outp' = fac_remove_gcd(mpz_mul_ui(bs_mul(0, Len(inp.f), inp.f), 2), inp.f,
                              bs_mul(0, Len(inp.g), inp.g), inp.g)
    /\ UNCHANGED <<mainVars, inp>>

FacNext == FacMul2 \/ FacMul \/ FacRemoveGcd

SpecFac == FacInit /\ [][FacNext]_vars

\* ------------------------------------------------------------------------
\* The merge steps, the binary splitting and the serial main on their own
\* ------------------------------------------------------------------------

\* ranges [a, m) and [m, b) with b <= MaxMergeTerms, merged at these levels
MaxMergeTerms == 4

MergeLevels == {3, 4}

MergeInit ==
    /\ MainIdle
    /\ op = "call"
    /\ \E b0 \in 2..MaxMergeTerms, lv \in MergeLevels, o \in Orders,
          f1 \in BOOLEAN, f2 \in BOOLEAN :
          \E m0 \in 1..(b0 - 1), t0 \in {b0, b0 + 1} :
             \E a0 \in 0..(m0 - 1) :
                inp = [a |-> a0, m |-> m0, b |-> b0, tm |-> t0, level |-> lv,
                       o |-> o, fail1 |-> f1, fail2 |-> f2]
    /\ outp = << >>

\* the two recursive calls of bs(a, b), split at m
BsHalves ==
    /\ op = "call"
    /\ op' = "halves"
    /\ outp' = LET h == [n \in 1..2 |->
                           bs(TheSieve(inp.tm), IF n = 1 THEN inp.a ELSE inp.m,
                              IF n = 1 THEN inp.m ELSE inp.b, inp.tm, inp.level + 1)]
               IN  [L |-> h[1], R |-> h[2], r |-> << >>]
    /\ UNCHANGED <<mainVars, inp>>

\* the recursive step of bs on them
BsStep ==
    /\ op = "halves"
    /\ op' = "bs"
    /\ outp' = [outp EXCEPT !.r =
                   LET r == bs_merge(outp.L, outp.R, inp.b, inp.tm, inp.level)
                   IN  [p |-> r.p, q |-> r.q, g |-> r.g]]
    /\ UNCHANGED <<mainVars, inp>>

\* sum on the same two triples, shard i holding L and shard k holding R
SumOmp ==
    /\ op = "halves"
    /\ op' = "sum_omp"
    /\ outp' = [outp EXCEPT !.r =
                   TripleOf(sum_omp(Operands(outp.L, outp.R), inp.b < inp.tm, inp.o))]
    /\ UNCHANGED <<mainVars, inp>>

SumSerial ==
    /\ op = "halves"
    /\ op' = "sum_serial"
    /\ outp' = [outp EXCEPT !.r =
                   TripleOf(sum_serial(Operands(outp.L, outp.R), inp.b < inp.tm))]
    /\ UNCHANGED <<mainVars, inp>>

\* chudnovsky_sum: g2 is read from the file of shard k only with gflag
ChudnovskySum ==
    /\ op = "halves"
    /\ inp.o \in PthreadOrders(inp.fail1, inp.fail2)
    /\ op' = "chudnovsky_sum"
    /\ outp' = [outp EXCEPT !.r =
                   LET R == IF inp.b < inp.tm THEN outp.R
                            ELSE [outp.R EXCEPT !.g = Zero]
                   IN  TripleOf(chudnovsky_sum(Operands(outp.L, R),
                                               inp.b < inp.tm, inp.o))]
    /\ UNCHANGED <<mainVars, inp>>

MergeNext == BsHalves \/ BsStep \/ SumOmp \/ SumSerial \/ ChudnovskySum

SpecMerge == MergeInit /\ [][MergeNext]_vars

\* ranges [a, b) and [b, c) with c <= MaxBsTerms, split from level 0..MaxLevel
MaxBsTerms == 6
MaxLevel == 4

AssocInit ==
    /\ MainIdle
    /\ op = "call"
    /\ inp \in {x \in [a : 0..MaxBsTerms, b : 0..MaxBsTerms, c : 0..MaxBsTerms,
                       tm : 1..MaxBsTerms, level : 0..MaxLevel] :
                  x.a < x.b /\ x.b < x.c /\ x.c <= x.tm}
    /\ outp = << >>

\* bs over [a, b) and over [b, c), then the two triples merged as sum does
SplitAndSum ==
    /\ op = "call"
    /\ op' = "bs+bs+sum"
    /\ outp' = LET h == [n \in 1..2 |->
                           bs(TheSieve(inp.tm), IF n = 1 THEN inp.a ELSE inp.b,
                              IF n = 1 THEN inp.b ELSE inp.c, inp.tm, inp.level)]
               IN  TripleOf(sum_serial(Operands(h[1], h[2]), inp.c < inp.tm))
    /\ UNCHANGED <<mainVars, inp>>

AssocNext == SplitAndSum

SpecAssoc == AssocInit /\ [][AssocNext]_vars

\* terms up to MaxRunTerms computed with t1 and with t2 <= MaxShards threads
MaxRunTerms == 11
MaxShards == 8

RunInit ==
    /\ MainIdle
    /\ op = "call"
    /\ inp \in {x \in [tm : 1..MaxRunTerms, t1 : 1..MaxShards, t2 : 1..MaxShards] :
                  x.t1 <= x.t2 /\ x.t2 <= x.tm}
    /\ outp = << >>

RunTwice ==
    /\ op = "call"
    /\ op' = "main"
    /\ outp' = LET r == [th \in {inp.t1, inp.t2} |-> main_serial(inp.tm, th)]
               IN  [r1 |-> r[inp.t1], r2 |-> r[inp.t2]]
    /\ UNCHANGED <<mainVars, inp>>

RunNext == RunTwice

SpecRun == RunInit /\ [][RunNext]_vars

\* ------------------------------------------------------------------------
\* perl-chudnovsky.c with no term to sum: chudnovsky_init, then
\* chudnovsky_final up to the conversion to floats
\* ------------------------------------------------------------------------

PerlInit ==
    /\ MainIdle
    /\ op = "call"
    /\ inp \in [digits : {d \in 0..(15 * MaxTerms) : TermsOf(d) = 0}]
    /\ outp = << >>

\* terms = digits / DIGITS_PER_ITER; mpz_init(p0); mpz_init(q0); mpz_init(g0)
ChudnovskyInit ==
    /\ op = "call"
    /\ op' = "chudnovsky_init"
    /\ outp' = [terms |-> TermsOf(inp.digits),
                p0 |-> Live(Zero), q0 |-> Live(Zero), g0 |-> Live(Zero)]
    /\ UNCHANGED <<mainVars, inp>>

\* if (terms == 0) { mpz_set_ui(p0, 1); mpz_set_ui(q0, 0); }
ChudnovskyFinal ==
    /\ op = "chudnovsky_init"
    /\ op' = "chudnovsky_final"
    /\ outp' = IF outp.terms = 0
               THEN [outp EXCEPT !.p0 = Live(mpz_set_ui(1)),
                                 !.q0 = Live(mpz_set_ui(0))]
               ELSE outp
    /\ UNCHANGED <<mainVars, inp>>

PerlNext == ChudnovskyInit \/ ChudnovskyFinal

\* both programs
BaseInit == Init \/ PerlInit

BaseNext == Next \/ PerlNext

SpecBase == BaseInit /\ [][BaseNext]_vars


\* ------------------------------------------------------------------------
\* Properties of the sieve and of the factored integers
\* ------------------------------------------------------------------------

IsPrime(n) == n > 1 /\ \A d \in 2..(n - 1) : n % d # 0

\* the product of fac^pow over the entries of f, as a machine integer
RECURSIVE FacValue(_)
FacValue(f) == IF f = << >> THEN 1 ELSE (Head(f).fac ^ Head(f).pow) * FacValue(Tail(f))

\* the product of fac^pow over the entries of f, as an exact integer
RECURSIVE FacEval(_)
FacEval(f) ==
    IF f = << >> THEN mpz_set_ui(1)
    ELSE mpz_mul(mpz_set_ui(Head(f).fac ^ Head(f).pow), FacEval(Tail(f)))

\* the exponent of the prime q in f
FacPow(f, q) ==
    IF \E n \in 1..Len(f) : f[n].fac = q
    THEN (CHOOSE e \in {f[n] : n \in 1..Len(f)} : e.fac = q).pow
    ELSE 0

C6_FacMulProduct ==
    /\ op = "fac_mul2" =>
          /\ outp.r = fac_mul2(inp.g, inp.f)
          /\ FacEval(outp.r) = mpz_mul(FacEval(inp.f), FacEval(inp.g))
    /\ op = "fac_mul" =>
          /\ outp.f = fac_mul2(inp.f, inp.g)
          /\ FacEval(outp.f) = mpz_mul(FacEval(inp.f), FacEval(inp.g))
          /\ outp.g = inp.g

\* operands with a common prime and a prime of their own each are multiplied
C6_Witness ==
    /\ op = "fac_mul"
    /\ FacPow(inp.f, 3) > 0 /\ FacPow(inp.g, 3) > 0
    /\ FacPow(inp.f, 5) > 0 /\ FacPow(inp.g, 5) = 0
    /\ FacPow(inp.f, 7) = 0 /\ FacPow(inp.g, 7) > 0
    /\ Len(outp.f) = 3

\* C7: after fac_remove_gcd no prime keeps a positive exponent in both fp and
\* fg, and a common prime stays only on the side that had the larger exponent
C7_NoSharedPrime ==
    op = "fac_remove_gcd" =>
        \A n \in 1..Len(FacPrimes) :
            LET q == FacPrimes[n]
            IN  /\ ~(FacPow(outp.fp, q) > 0 /\ FacPow(outp.fg, q) > 0)
                /\ (FacPow(outp.fp, q) > 0 => FacPow(inp.f, q) > FacPow(inp.g, q))
                /\ (FacPow(outp.fg, q) > 0 => FacPow(inp.g, q) > FacPow(inp.f, q))

\* a common prime with different exponents has been cancelled
C7_Witness ==
    /\ op = "fac_remove_gcd"
    /\ FacPow(inp.f, 3) = 2 /\ FacPow(inp.g, 3) = 1
    /\ FacPow(outp.fp, 3) = 1 /\ FacPow(outp.fg, 3) = 0


\* ------------------------------------------------------------------------
\* Properties of the splitting, the merges and main
\* ------------------------------------------------------------------------

\* the documented merge of the triples L and R
MergeFormula(L, R) ==
    [p |-> mpz_mul(L.p, R.p),
     q |-> mpz_add(mpz_mul(L.q, R.p), mpz_mul(R.q, L.g)),
     g |-> mpz_mul(L.g, R.g)]

\* the triple of the terms a+1..b, one term merged at a time
RECURSIVE TermsTriple(_, _, _)
TermsTriple(s, a, b) ==
    IF b - a = 1 THEN bs_base(s, b)
    ELSE MergeFormula(TermsTriple(s, a, b - 1), bs_base(s, b))

\* bs(a, b) from this level calls fac_remove_gcd somewhere
RECURSIVE Cancels(_, _, _)
Cancels(a, b, level) ==
    /\ b - a > 1
    /\ \/ level >= 4
       \/ Cancels(a, bs_mid(a, b), level + 1)
       \/ Cancels(bs_mid(a, b), b, level + 1)

\* a leaf split of main with tm terms and th threads calls fac_remove_gcd
RunCancels(tm, th) ==
    \E i \in 0..(th - 1) :
        Cancels(i * (tm \div th),
                IF i < th - 1 THEN (i + 1) * (tm \div th) ELSE tm, CeilLog2(th))

\* the integer of the primes fp and fg have in common
CommonFactor(fp, fg) ==
    FacEval([n \in 1..Len(fp) |->
                [fac |-> fp[n].fac, pow |-> min(fp[n].pow, FacPow(fg, fp[n].fac))]])

\* x1/y1 = x2/y2
SameRatio(x1, y1, x2, y2) == mpz_mul(x1, y2) = mpz_mul(x2, y1)

\* C1: once the reduction is over, P and Q of shard 0 are what the serial
\* program computes for the same terms and threads, whatever the size of the
\* team and the order its threads ran the leaf splits, the merges of a round
\* and the three multiplications of a merge in
C1_ScheduleIndependent ==
    (pc = "clear_g" /\ terms > 0) =>
        /\ ~fault
        /\ pstack[0].v = main_serial(terms, threads).p
        /\ qstack[0].v = main_serial(terms, threads).q

\* four shards have been split and merged by a team of more than one thread
C1_Witness ==
    pc = "clear_g" /\ threads = 4 /\ team >= 2 /\ nthrs >= 2 /\ IsLive(pstack[0])

\* C2 as stated: P and Q are the same integers for any two thread counts
C2_SameIntegers ==
    op = "main" => outp.r1.p = outp.r2.p /\ outp.r1.q = outp.r2.q

\* C2: for any two thread counts the results have the same ratio Q/P, and are
\* the same integers when no leaf split of either run removes common factors
C2_SameRatio ==
    op = "main" =>
        /\ SameRatio(outp.r1.p, outp.r1.q, outp.r2.p, outp.r2.q)
        /\ (~RunCancels(inp.tm, inp.t1) /\ ~RunCancels(inp.tm, inp.t2)) =>
               (outp.r1.p = outp.r2.p /\ outp.r1.q = outp.r2.q)

\* one thread against eight, with different integers
C2_Witness ==
    op = "main" /\ inp.t1 = 1 /\ inp.t2 = 8 /\ outp.r1.p # outp.r2.p

\* bs over the whole range [a, c)
AssocWhole == bs(TheSieve(inp.tm), inp.a, inp.c, inp.tm, inp.level)

\* C3 as stated: the merge of bs(a,b) and bs(b,c) has the P and Q of bs(a,c)
C3_SameIntegers ==
    op = "bs+bs+sum" => outp.p = AssocWhole.p /\ outp.q = AssocWhole.q

\* C3: the merge of bs(a,b) and bs(b,c) has the ratio Q/P of bs(a,c), and the
\* same P and Q when none of the three calls removes common factors
C3_SameRatio ==
    op = "bs+bs+sum" =>
        /\ SameRatio(outp.p, outp.q, AssocWhole.p, AssocWhole.q)
        /\ (/\ ~Cancels(inp.a, inp.b, inp.level)
            /\ ~Cancels(inp.b, inp.c, inp.level)
            /\ ~Cancels(inp.a, inp.c, inp.level)) =>
               (outp.p = AssocWhole.p /\ outp.q = AssocWhole.q)

\* a merge whose P differs from the P of bs(a,c), which removed common factors
C3_Witness ==
    /\ op = "bs+bs+sum"
    /\ Cancels(inp.a, inp.c, inp.level)
    /\ outp.p # AssocWhole.p

\* C4: the ranges main hands to bs_init split [0, terms) into threads
\* non-empty intervals in increasing order, and no leaf split gets an empty
\* range
C4_ShardsPartition ==
    /\ pc # "abort"
    /\ pc = "leaf_fork" =>
          /\ ShardA(0) = 0
          /\ ShardB(threads - 1) = terms
          /\ \A i \in Shards : 0 <= ShardA(i) /\ ShardA(i) < ShardB(i)
                               /\ ShardB(i) <= terms
          /\ \A i \in Shards : i < threads - 1 => ShardB(i) = ShardA(i + 1)

\* C8: the rounds have the strides 1, 2, 4, .. below threads; the merges of a
\* round are at the multiples i of 2k with i+k < threads and join a range to
\* the one that starts where it ends; at the end there have been
\* ceil(log2(threads)) rounds, every shard but 0 was merged away once, and
\* shard 0 stands for [0, terms) with the ratio Q/P of its terms
C8_ReductionShape ==
    /\ pc = "sum" =>
          /\ \E r \in 0..MaxThreads : k = 2^r /\ k < threads
          /\ \A i \in Shards : merge[i] # "todo" =>
                                  i % (2 * k) = 0 /\ i + k < threads
          /\ \A i \in Shards : merge[i] = "tasks" =>
                /\ span[i][1] < span[i][2]
                /\ span[i][2] = span[i + k][1]
                /\ span[i + k][1] < span[i + k][2]
    /\ (pc = "clear_g" /\ terms > 0) =>
          /\ \E r \in 0..MaxThreads :
                k = 2^r /\ 2^r >= threads /\ (r > 0 => 2^(r - 1) < threads)
          /\ span[0] = <<0, terms>>
          /\ \A i \in Shards \ {0} :
                pstack[i] = Cleared /\ qstack[i] = Cleared /\ gstack[i] = Cleared
          /\ ~fault
          /\ IsLive(pstack[0]) /\ IsLive(qstack[0])
          /\ LET w == TermsTriple(TheSieve(terms), 0, terms)
             IN  SameRatio(pstack[0].v, qstack[0].v, w.p, w.q)

\* three shards, not a power of two, reduced in two rounds
C8_Witness ==
    pc = "clear_g" /\ threads = 3 /\ k = 4 /\ span[0] = <<0, terms>>

\* the merge formula on the operands of the merge step just run
C9_Formula == MergeFormula(outp.L, outp.R)

\* C9 as stated: every merge step leaves P = P_i*P_k and Q = Q_i*P_k + Q_k*G_i
\* of the operands as they were before the merge, and all leave the same
\* triple (G = G_i*G_k where G is merged at all)
C9_SameTriple ==
    op \in {"bs", "sum_omp", "sum_serial", "chudnovsky_sum"} =>
        /\ outp.r.p = C9_Formula.p
        /\ outp.r.q = C9_Formula.q
        /\ inp.b < inp.tm => outp.r.g = C9_Formula.g

\* C9: sum in both forms and chudnovsky_sum, whichever of its threads could
\* be created, leave P = P_i*P_k, Q = Q_i*P_k + Q_k*G_i and, with gflag,
\* G = G_i*G_k; the recursive step of bs leaves these divided by the common
\* factor of P_k and G_i it removes at level >= 4
C9_SameUpToCancel ==
    /\ op \in {"sum_omp", "sum_serial", "chudnovsky_sum"} =>
          /\ outp.r.p = C9_Formula.p
          /\ outp.r.q = C9_Formula.q
          /\ inp.b < inp.tm => outp.r.g = C9_Formula.g
    /\ op = "bs" =>
          LET d == IF inp.level >= 4 THEN CommonFactor(outp.R.fp, outp.L.fg)
                   ELSE mpz_set_ui(1)
          IN  /\ mpz_mul(outp.r.p, d) = C9_Formula.p
              /\ mpz_mul(outp.r.q, d) = C9_Formula.q
              /\ inp.b < inp.tm => mpz_mul(outp.r.g, d) = C9_Formula.g

\* the recursive step of bs has removed a common factor
C9_Witness ==
    /\ op = "bs"
    /\ inp.level >= 4
    /\ CommonFactor(outp.R.fp, outp.L.fg) # mpz_set_ui(1)
    /\ outp.r.p # C9_Formula.p

\* main with no term to sum, past the computation of terms and threads
ZeroRun == terms = 0 /\ pc \in {"sieve", "alloc", "base", "clear_g", "convert", "final"}

\* what main does with no term to sum
C10_Main ==
    /\ ZeroRun =>
          /\ threads = 1
          /\ sieve_state = "none"
          /\ leaf = << >> /\ merge = << >> /\ k = 0
    /\ (ZeroRun /\ pc = "clear_g") =>
          /\ pstack[0] = Live(mpz_set_ui(1))
          /\ qstack[0] = Live(mpz_set_ui(0))
          /\ gstack[0] = Live(mpz_set_ui(1))
    /\ (ZeroRun /\ pc = "convert") =>
          /\ pstack[0] = Live(mpz_set_ui(1))
          /\ qstack[0] = Live(mpz_set_ui(0))

\* chudnovsky_final with no term to sum
PerlZeroRun == op = "chudnovsky_final" /\ outp.terms = 0

\* C10 as stated: with terms = 0 no sieve, no bs, no reduction, one thread,
\* and the triple is P = 1, Q = 0, G = 1 in main and in chudnovsky_final
C10_BaseTriple ==
    /\ C10_Main
    /\ PerlZeroRun =>
          /\ outp.p0 = Live(mpz_set_ui(1))
          /\ outp.q0 = Live(mpz_set_ui(0))
          /\ outp.g0 = Live(mpz_set_ui(1))

\* C10: with terms = 0 main builds no sieve, runs no bs and no reduction,
\* has one thread and the triple P = 1, Q = 0, G = 1, of which P and Q reach
\* the conversion; chudnovsky_final sets P = 1 and Q = 0 and leaves G at 0
C10_BasePQ ==
    /\ C10_Main
    /\ PerlZeroRun =>
          /\ outp.p0 = Live(mpz_set_ui(1))
          /\ outp.q0 = Live(mpz_set_ui(0))
          /\ outp.g0 = Live(mpz_set_ui(0))

\* main was asked for several threads and no term, and is about to convert
C10_Witness ==
    ZeroRun /\ pc = "convert" /\ arg.threads > 1 /\ threads = 1

\* ------------------------------------------------------------------------
\* The command line
\* ------------------------------------------------------------------------

\* main got arguments and is past the checks of lines 241-261
Checked == Len(cmd.argv) > 0 /\ pc \notin {"args", "start"}

\* C12: whatever digits and threads are asked for, the run is not aborted:
\* digits is the smaller of the request and MAX_DIGITS, threads is between 1
\* and the logical cores and 1 with no term, a change of either is reported
\* on stderr, and the process exits with status 0
C12_NeverFatal ==
    /\ pc # "abort"
    /\ Checked =>
          /\ digits = min(arg.digits, MAX_DIGITS)
          /\ 1 <= threads /\ threads <= arg.ncpus
          /\ terms = 0 => threads = 1
          /\ digits # arg.digits => \E n \in DOMAIN diag : diag[n] = "digits reset"
          /\ threads # arg.threads => \E n \in DOMAIN diag : diag[n] = "threads reset"
    /\ (Len(cmd.argv) > 0 /\ pc = "exit") => exit_status = 0

\* nothing of the computation has begun
NothingComputed ==
    /\ sieve_state = "none" /\ sieve_use = NoSieveUse
    /\ pstack = << >> /\ qstack = << >> /\ gstack = << >>
    /\ leaf = << >> /\ merge = << >> /\ fl = NoFloats /\ stdout = ""

\* the usage text was printed and the process ended with status 1
UsageExit == pc = "exit" /\ exit_status = 1 /\ diag = <<"usage">> /\ NothingComputed

\* argument n is there and is not a numeral (nor "auto" for the threads)
Malformed(n) == n <= Len(cmd.argv) /\ cmd.argv[n].kind = "text"

\* C13 as stated: with no argument, or with a digits, option or threads
\* argument that is not numeric, main prints the usage text and ends with a
\* non-zero status before any computation
C13_UsageOnMalformed ==
    (pc # "args" /\ (Len(cmd.argv) = 0 \/ \E n \in 1..3 : Malformed(n)))
        => UsageExit

\* C13: with no argument main prints the usage text and ends with status 1
\* before any computation; with arguments the usage text is never printed
\* and the status is never 1, a digits, option or threads argument that is
\* not numeric is read as 0, "auto" as the logical cores, and a missing
\* option or threads argument leaves the default
C13_UsageOnNoArgument ==
    /\ (pc # "args" /\ Len(cmd.argv) = 0) => UsageExit
    /\ Len(cmd.argv) > 0 =>
          /\ \A n \in DOMAIN diag : diag[n] # "usage"
          /\ exit_status # 1
    /\ (pc # "args" /\ Malformed(1)) => arg.digits = 0
    /\ (pc # "args" /\ Malformed(2)) => arg.out = 0
    /\ (pc # "args" /\ Malformed(3)) => arg.threads = 0
    /\ (pc # "args" /\ Len(cmd.argv) = 3 /\ cmd.argv[3] = Auto)
          => arg.threads = cmd.ncpus
    /\ (pc # "args" /\ Len(cmd.argv) \in 1..2) => arg.threads = 1
    /\ (pc # "args" /\ Len(cmd.argv) = 1) => arg.out = 0

\* a run whose digits argument is a word came to its normal end
C13_Witness ==
    /\ Malformed(1) /\ Len(cmd.argv) = 3
    /\ pc = "exit" /\ exit_status = 0 /\ fl.qi.st = "cleared"

\* ------------------------------------------------------------------------
\* chudnovsky_sum (perl-chudnovsky.c) with its two helper threads: op is
\* where the caller is, outp the integers, the threads and what was done
\* ------------------------------------------------------------------------

\* the operands read from the two files
SumOperands ==
    [p  : {mpz_set_ui(2), mpz_set_ui(3)},
     q  : {mpz_neg(mpz_set_ui(1)), mpz_set_ui(4)},
     g  : {mpz_set_ui(5)},
     p2 : {mpz_set_ui(7)},
     q2 : {mpz_set_ui(3), mpz_neg(mpz_set_ui(2))},
     g2 : {mpz_set_ui(11)},
     gflag : BOOLEAN]

PthreadInit ==
    /\ MainIdle
    /\ op = "call"
    /\ inp \in SumOperands
    /\ outp = << >>

\* pthread_t thr = 0 and the thread behind it
NoThread == [id |-> 0, st |-> "none", val |-> Zero]

\* lines 172-223: the six integers are initialised and loaded, thr1 = thr2 = 0
\* (g2 is read only with gflag)
SumLoad ==
    /\ op = "call"
    /\ op' = "create1"
    /\ outp' = [p  |-> Live(inp.p),  q  |-> Live(inp.q),  g |-> Live(inp.g),
                p2 |-> Live(inp.p2), q2 |-> Live(inp.q2),
                g2 |-> Live(IF inp.gflag THEN inp.g2 ELSE Zero),
                thr |-> <<NoThread, NoThread>>,
                muls |-> <<0, 0>>, joined |-> << >>, fault |-> FALSE]
    /\ UNCHANGED <<mainVars, inp>>

\* thr1_mul.x1 = p, thr2_mul.x1 = q; x2 = &p2 for both
MulTarget(n) == IF n = 1 THEN "p" ELSE "q"

\* pthread_create(&thr, NULL, _mul, ..) succeeds, or fails and the caller sets
\* thr = 0 and calls _mul itself
PthreadCreate(n) ==
    /\ op = IF n = 1 THEN "create1" ELSE "create2"
    /\ op' = IF n = 1 THEN "create2" ELSE "mul_q2"
    /\ \E created \in BOOLEAN :
          IF created
          THEN outp' = [outp EXCEPT !.thr[n] = [id |-> n, st |-> "new", val |-> Zero]]
          ELSE outp' = [outp EXCEPT
                          ![MulTarget(n)].v = mpz_mul(@, outp.p2.v),
                          !.muls[n] = @ + 1,
                          !.fault = @ \/ ~IsLive(outp[MulTarget(n)])
                                      \/ ~IsLive(outp.p2)]
    /\ UNCHANGED <<mainVars, inp>>

\* _mul on a thread: mpz_mul(*x1, *x1, *x2) reads its operands
ThreadMulStart(n) ==
    /\ op \notin {"call", "done"}
    /\ outp.thr[n].st = "new"
    /\ outp' = [outp EXCEPT
                  !.thr[n].st = "run",
                  !.thr[n].val = mpz_mul(outp[MulTarget(n)].v, outp.p2.v),
                  !.fault = @ \/ ~IsLive(outp[MulTarget(n)]) \/ ~IsLive(outp.p2)]
    /\ UNCHANGED <<mainVars, inp, op>>

\* _mul on a thread: the product is written and the thread ends
ThreadMulEnd(n) ==
    /\ op \notin {"call", "done"}
    /\ outp.thr[n].st = "run"
    /\ outp' = [outp EXCEPT
                  !.thr[n].st = "done",
                  ![MulTarget(n)].v = outp.thr[n].val,
                  !.muls[n] = @ + 1,
                  !.fault = @ \/ ~IsLive(outp[MulTarget(n)])]
    /\ UNCHANGED <<mainVars, inp, op>>

\* line 232: mpz_mul(q2, q2, *g)
MulQ2 ==
    /\ op = "mul_q2"
    /\ op' = "join2"
    /\ outp' = [outp EXCEPT !.q2.v = mpz_mul(@, outp.g.v),
                            !.fault = @ \/ ~IsLive(outp.q2) \/ ~IsLive(outp.g)]
    /\ UNCHANGED <<mainVars, inp>>

\* a defective Joinable: the caller goes on without pthread_join
JoinableAtOnce(n) == outp.thr[n].id = 0 \/ outp.thr[n].st \in {"new", "run", "done"}

\* if (thr && !pthread_join(thr, NULL)): no join for thr = 0, else the caller
\* waits until the thread has ended
Joinable(n) == outp.thr[n].id = 0 \/ outp.thr[n].st = "done"

\* lines 236-239: thr2 is joined first, then thr1
PthreadJoin(n) ==
    /\ op = IF n = 2 THEN "join2" ELSE "join1"
    /\ Joinable(n)
    /\ op' = IF n = 2 THEN "join1" ELSE "finish"
    /\ outp' = IF outp.thr[n].id # 0
               THEN [outp EXCEPT !.joined = Append(@, n)]
               ELSE outp
    /\ UNCHANGED <<mainVars, inp>>

\* lines 243-252: mpz_clear(p2); *q += q2; mpz_clear(q2); *g *= g2 with
\* gflag and mpz_clear(*g) without; mpz_clear(g2)
SumFinish ==
    /\ op = "finish"
    /\ op' = "done"
    /\ outp' = [outp EXCEPT
                  !.p2 = Cleared,
                  !.q.v = mpz_add(@, outp.q2.v),
                  !.q2 = Cleared,
                  !.g = IF inp.gflag THEN Live(mpz_mul(outp.g.v, outp.g2.v))
                        ELSE Cleared,
                  !.g2 = Cleared,
                  !.fault = @ \/ ~IsLive(outp.p2) \/ ~IsLive(outp.q)
                              \/ ~IsLive(outp.q2) \/ ~IsLive(outp.g)
                              \/ ~IsLive(outp.g2)]
    /\ UNCHANGED <<mainVars, inp>>

PthreadNext ==
    \/ SumLoad
    \/ \E n \in 1..2 : PthreadCreate(n)
    \/ \E n \in 1..2 : ThreadMulStart(n)
    \/ \E n \in 1..2 : ThreadMulEnd(n)
    \/ MulQ2
    \/ \E n \in 1..2 : PthreadJoin(n)
    \/ SumFinish

SpecPthread == PthreadInit /\ [][PthreadNext]_vars

\* C14: whichever of the two pthread_create calls fail, P_i*=P_k and
\* Q_i*=P_k are each run exactly once, only a thread that was created is
\* joined, P_k is cleared and Q_k added to Q_i only when both products are
\* written, and chudnovsky_sum leaves P = P_i*P_k, Q = Q_i*P_k + Q_k*G_i and
\* G = G_i*G_k (with gflag), as it does with both threads
C14_CreateFailureInline ==
    /\ op \notin {"call"} =>
          /\ \A n \in 1..2 : outp.muls[n] <= 1
          /\ \A n \in 1..2 : (outp.thr[n].id = 0 /\ op \notin {"create1"}
                              /\ (n = 2 => op # "create2")) => outp.muls[n] = 1
          /\ \A j \in DOMAIN outp.joined : outp.thr[outp.joined[j]].id # 0
          /\ ~outp.fault
    /\ op = "finish" => outp.muls = <<1, 1>>
    /\ op = "done" =>
          /\ outp.muls = <<1, 1>>
          /\ \A n \in 1..2 : outp.thr[n].st \in {"none", "done"}
          /\ outp.p = Live(mpz_mul(inp.p, inp.p2))
          /\ outp.q = Live(mpz_add(mpz_mul(inp.q, inp.p2), mpz_mul(inp.q2, inp.g)))
          /\ outp.g = IF inp.gflag THEN Live(mpz_mul(inp.g, inp.g2)) ELSE Cleared
          /\ outp.p2 = Cleared /\ outp.q2 = Cleared /\ outp.g2 = Cleared

\* the first thread could not be created, the second was and has been joined
C14_Witness ==
    /\ op = "done"
    /\ outp.thr[1].id = 0 /\ outp.thr[2].id = 2
    /\ outp.joined = <<2>> /\ outp.muls = <<1, 1>>

\* ------------------------------------------------------------------------
\* Order of the phases of main
\* ------------------------------------------------------------------------

\* main is past the computation of terms
PastStart == pc \notin {"args", "start"}

\* a merge has begun or is over
MergeBegun == merged # {} \/ \E i \in DOMAIN merge : merge[i] # "todo"

\* C15: with terms > 0 the sieve is built once, before any leaf split, not
\* written again, freed once when every leaf split is over and before any
\* merge, and not read once freed; with terms = 0 it is not built nor freed
C15_SieveLifetime ==
    /\ sieve_use.builds <= 1 /\ sieve_use.frees <= 1 /\ ~sieve_use.misuse
    /\ sieve_use.builds = 0 <=> sieve_state = "none"
    /\ sieve_use.frees = 1 <=> sieve_state = "freed"
    /\ (PastStart /\ terms = 0) => sieve_use = NoSieveUse
    /\ (terms > 0 /\ pc \notin {"args", "start", "sieve"}) => sieve_use.builds = 1
    /\ \A i \in DOMAIN leaf :
          leaf[i] = "run" => sieve_state = "built"
    /\ sieve_use.frees = 1 => \A i \in DOMAIN leaf : leaf[i] = "done"
    /\ (\E i \in DOMAIN leaf : leaf[i] # "todo") => sieve_use.builds = 1
    /\ MergeBegun => sieve_use.frees = 1
    /\ (pc = "exit" /\ exit_status = 0 /\ terms > 0) =>
          sieve_use = [builds |-> 1, frees |-> 1, misuse |-> FALSE]

\* three leaf splits ran on a team of two, the sieve is freed and a merge
\* is under way
C15_Witness ==
    /\ pc = "sum" /\ threads = 3 /\ team = 2
    /\ sieve_state = "freed" /\ merge[0] = "tasks"

\* the strides of the rounds before the one with stride kk
StridesBelow(kk) == {2^r : r \in {n \in 0..MaxThreads : 2^n < kk}}

\* C16: a merge of a round begins only when every merge of the rounds before
\* is over, and a merge of the first round only when every leaf split is over
C16_RoundsInOrder ==
    \A i \in DOMAIN merge :
        merge[i] # "todo" =>
            /\ \A j \in Shards : leaf[j] = "done"
            /\ \A kk \in StridesBelow(k) :
                  \A j \in RoundSet(kk) : <<kk, j>> \in merged

\* four shards: a merge of the second round runs after both of the first
C16_Witness ==
    /\ pc = "sum" /\ threads = 4 /\ k = 2 /\ merge[0] = "tasks"
    /\ team >= 2 /\ <<1, 0>> \in merged /\ <<1, 2>> \in merged

\* the final parallel region is over
DivSqrtOver == pc \in {"mul", "output"} \/ (pc = "exit" /\ exit_status = 0)

\* C17: with a team of two or of one, my_div (writing qi) and my_sqrt_ui
\* (writing ci) are each run once, each by one thread, pi is cleared only
\* after the division, and qi*ci is computed only when both are done
C17_DivSqrtOnce ==
    /\ Len(ran.div) <= 1 /\ Len(ran.sqrt) <= 1
    /\ pc \in {"div_sqrt", "mul", "output"} => ~fault
    /\ pc = "div_sqrt" =>
          /\ fl.pi.st = "cleared" => ran.div = <<0>> /\ fl.qi.val = "p/q"
          /\ Len(ran.div) = 0 => fl.qi.val = "q" /\ fl.pi = [st |-> "live", val |-> "p"]
          /\ Len(ran.sqrt) = 0 => fl.ci.val # "sqrt"
    /\ DivSqrtOver =>
          /\ ran.div = <<0>>
          /\ ran.sqrt = IF team < 2 THEN <<0>> ELSE <<1>>
          /\ fl.pi.st = "cleared"
    /\ pc = "mul" => fl.qi.val = "p/q" /\ fl.ci = [st |-> "live", val |-> "sqrt"]
    /\ pc = "output" => fl.qi = [st |-> "live", val |-> "pi"] /\ fl.ci.st = "cleared"

\* a team of two: thread 1 has taken the square root while thread 0 divides
C17_Witness ==
    /\ pc = "div_sqrt" /\ team = 2
    /\ fin[0] = "div" /\ fin[1] = "end" /\ ran.sqrt = <<1>>

\* ------------------------------------------------------------------------
\* What the units that run side by side read and write: <<"p", i>>,
\* <<"q", i>> and <<"g", i>> are pstack[i], qstack[i] and gstack[i],
\* <<"tmp", i>> the locals of the bs_init of shard i, <<"sieve", 0>> the
\* sieve, <<"pi", 0>>, <<"qi", 0>> and <<"ci", 0>> the floats of main
\* ------------------------------------------------------------------------

\* bs_init(.., i, ..): its locals, pstack[i], qstack[i], gstack[i]; the sieve
\* is read by fac_set_bp
LeafWrites(i) == {<<"p", i>>, <<"q", i>>, <<"g", i>>, <<"tmp", i>>}
LeafReads(i) == LeafWrites(i) \cup {<<"sieve", 0>>}

\* a task of sum: mpz_mul(x1, x1, x2)
TaskWrites(i, t) == {TaskOperands(i, t)[1]}
TaskReadSet(i, t) == {TaskOperands(i, t)[1], TaskOperands(i, t)[2]}

\* sum after the taskwait: mpz_clear(pk); qi += qk; mpz_clear(qk);
\* gi *= gk with gflag; mpz_clear(gk)
JoinWrites(i) ==
    {<<"p", i + k>>, <<"q", i>>, <<"q", i + k>>, <<"g", i + k>>}
    \cup (IF GFlag(i) THEN {<<"g", i>>} ELSE {})
JoinReads(i) ==
    {<<"q", i>>, <<"q", i + k>>}
    \cup (IF GFlag(i) THEN {<<"g", i>>, <<"g", i + k>>} ELSE {})

\* a thread of the final region, by where it is: in my_div, before
\* mpf_clear(pi), in my_sqrt_ui
FinalWrites(tid) ==
    IF fin[tid] = "div" THEN {<<"qi", 0>>}
    ELSE IF fin[tid] = "divided" THEN {<<"pi", 0>>}
    ELSE IF fin[tid] = "sqrt" THEN {<<"ci", 0>>}
    ELSE {}
FinalReads(tid) ==
    IF fin[tid] = "div" THEN {<<"pi", 0>>, <<"qi", 0>>} ELSE {}

\* the units that are running: leaf splits, tasks, the part of a sum after
\* its taskwait, threads of the final region
Units ==
    {<<"leaf", i, 0>> : i \in {j \in DOMAIN leaf : pc = "leaf" /\ leaf[j] = "run"}}
    \cup {<<"task", it[1], it[2]>> : it \in {jt \in (DOMAIN task) \X (1..3) :
                 pc = "sum" /\ task[jt[1]][jt[2]].st = "run"}}
    \cup {<<"join", i, 0>> : i \in {j \in DOMAIN merge :
                 pc = "sum" /\ merge[j] = "tasks" /\ TasksDone(j)}}
    \cup {<<"final", tid, 0>> : tid \in {j \in DOMAIN fin : pc = "div_sqrt"}}

Writes(u) ==
    IF u[1] = "leaf" THEN LeafWrites(u[2])
    ELSE IF u[1] = "task" THEN TaskWrites(u[2], u[3])
    ELSE IF u[1] = "join" THEN JoinWrites(u[2])
    ELSE FinalWrites(u[2])

Reads(u) ==
    IF u[1] = "leaf" THEN LeafReads(u[2])
    ELSE IF u[1] = "task" THEN TaskReadSet(u[2], u[3])
    ELSE IF u[1] = "join" THEN JoinReads(u[2])
    ELSE FinalReads(u[2])

\* C18: of two units that run at the same time neither writes what the
\* other writes or reads (the timing accumulators left aside): leaf splits
\* keep to their own slot and locals and read the sieve, the merges of a
\* round to disjoint pairs {i, i+k}, the tasks of a merge write P_i, Q_i, Q_k
\* and read P_k and G_i besides, and the rest of sum runs when its tasks are
\* over
C18_NoSharedWrite ==
    /\ \A u, v \in Units :
          u # v => Writes(u) \cap (Writes(v) \cup Reads(v)) = {}
    /\ \A i \in DOMAIN merge :
          (pc = "sum" /\ merge[i] = "tasks") =>
              \A j \in DOMAIN merge :
                  (merge[j] = "tasks" /\ j # i) => {i, i + k} \cap {j, j + k} = {}

\* two merges of one round with a task each running, on a team of two or more
C18_Witness ==
    /\ pc = "sum" /\ threads = 4 /\ k = 1
    /\ task[0][3].st = "run" /\ task[2][1].st = "run"

\* ------------------------------------------------------------------------
\* The scratch slots tmp[0 .. depth-2] of one bs_init: what bs and bs_init
\* do to the parts p, q, g, fp, fg of each slot, in program order.  op is
\* where bs_init is, outp the slots and the steps bs has still to make
\* ------------------------------------------------------------------------

MaxScratchTerms == 7

SlotParts == <<"p", "q", "g", "fp", "fg">>

\* one access of bs to a part of tmp[slot]; slot -1 is not a scratch slot
\* (p1, q1, g1, fp1, fg1 are then the stack slot and the locals of bs_init)
Touch(e, slot, part) ==
    IF slot < 0 THEN << >> ELSE <<[e |-> e, slot |-> slot, part |-> part]>>

\* a defective BsRelease: the slot is released whatever clear_flag is
BsReleaseAlways(clear_flag, slot, parts) ==
    [n \in 1..Len(parts) |-> [e |-> "clear", slot |-> slot, part |-> parts[n]]]

\* if (clear_flag) mpz_clear / fac_clear of the parts of tmp[j]
BsRelease(clear_flag, slot, parts) ==
    IF clear_flag = 1
    THEN [n \in 1..Len(parts) |-> [e |-> "clear", slot |-> slot, part |-> parts[n]]]
    ELSE << >>

\* the accesses of bs(p1, q1, g1, fp1, fg1, a, b, terms, level, .., tmp, j,
\* clear_flag) where p1 .. fg1 are the parts of tmp[o] (o = -1: none of tmp)
RECURSIVE bs_slots(_, _, _, _, _, _, _)
bs_slots(o, a, b, tm, level, j, clear_flag) ==
    IF b - a = 1
    THEN Touch("use", o, "p") \o Touch("use", o, "g") \o Touch("use", o, "q")
         \o Touch("use", o, "fp") \o Touch("use", o, "fg")
    ELSE bs_slots(o, a, bs_mid(a, b), tm, level + 1, j, 0)
         \o bs_slots(j, bs_mid(a, b), b, tm, level + 1, j + 1, 0)
         \o (IF level >= 4
             THEN Touch("use", j, "p") \o Touch("use", j, "fp")
                  \o Touch("use", o, "g") \o Touch("use", o, "fg")
             ELSE << >>)
         \o Touch("use", j, "q") \o Touch("use", o, "g")
         \o Touch("use", o, "fp") \o Touch("use", j, "fp")
         \o (IF b < tm
             THEN Touch("use", o, "g") \o Touch("use", j, "g")
                  \o Touch("use", o, "fg") \o Touch("use", j, "fg")
             ELSE << >>)
         \o BsRelease(clear_flag, j, <<"fp", "fg", "g">>)
         \o (IF clear_flag = 1 THEN Touch("mark", j, "p") ELSE << >>)
         \o Touch("use", o, "q") \o Touch("use", j, "p")
         \o Touch("use", o, "q") \o Touch("use", j, "q")
         \o BsRelease(clear_flag, j, <<"q">>)
         \o Touch("use", o, "p") \o Touch("use", j, "p")
         \o BsRelease(clear_flag, j, <<"p">>)

\* the calls of bs_init that main makes for terms up to MaxScratchTerms:
\* shard i of th shards, th <= tm
ScratchCalls ==
    {[a |-> i * (tm \div th),
      b |-> IF i < th - 1 THEN (i + 1) * (tm \div th) ELSE tm,
      terms |-> tm, level |-> CeilLog2(th), depth |-> CeilLog2(tm) + 1] :
        <<tm, th, i>> \in {x \in (1..MaxScratchTerms) \X (1..MaxScratchTerms)
                                  \X (0..(MaxScratchTerms - 1)) :
                              x[2] <= x[1] /\ x[3] < x[2]}}

ScratchInit ==
    /\ MainIdle
    /\ op = "bs_init"
    /\ inp \in ScratchCalls
    /\ outp = << >>

NoSlot == [n \in 1..5 |-> "none"]
PartNo(part) == CHOOSE n \in 1..5 : SlotParts[n] = part

\* lines 132-137: tmp is allocated and every slot initialised
ScratchAlloc ==
    /\ op = "bs_init"
    /\ op' = "bs"
    /\ outp' = [slots |-> [j \in 0..(inp.depth - 2) |->
                               [st |-> [n \in 1..5 |-> "live"],
                                by |-> [n \in 1..5 |-> "none"],
                                cleared |-> 0]],
                todo |-> bs_slots(0 - 1, inp.a, inp.b, inp.terms, inp.level, 0, 1),
                j |-> 0, fault |-> FALSE]
    /\ UNCHANGED <<mainVars, inp>>

\* bs makes its next access to a slot: a use, mpz_clear / fac_clear, or
\* tmp[j].cleared = 1
ScratchStep ==
    /\ op = "bs"
    /\ outp.todo # << >>
    /\ LET ev == Head(outp.todo)
           n  == PartNo(ev.part)
       IN  IF ev.slot \notin DOMAIN outp.slots
           THEN outp' = [outp EXCEPT !.todo = Tail(@), !.fault = TRUE]
           ELSE IF ev.e = "use"
           THEN outp' = [outp EXCEPT
                           !.todo = Tail(@),
                           !.fault = @ \/ outp.slots[ev.slot].st[n] # "live"]
           ELSE IF ev.e = "clear"
           THEN outp' = [outp EXCEPT
                           !.todo = Tail(@),
                           !.slots[ev.slot].st[n] = "cleared",
                           !.slots[ev.slot].by[n] = "bs",
                           !.fault = @ \/ outp.slots[ev.slot].st[n] # "live"]
           ELSE outp' = [outp EXCEPT !.todo = Tail(@),
                                     !.slots[ev.slot].cleared = 1]
    /\ UNCHANGED <<mainVars, inp, op>>

\* bs returns
ScratchReturn ==
    /\ op = "bs"
    /\ outp.todo = << >>
    /\ op' = "cleanup"
    /\ UNCHANGED <<mainVars, inp, outp>>

\* lines 141-146: the slots not marked cleared are released, one j at a time
ScratchCleanup ==
    /\ op = "cleanup"
    /\ outp.j < inp.depth - 1
    /\ outp' = IF outp.slots[outp.j].cleared = 0
               THEN [outp EXCEPT
                       !.slots[outp.j].st = [n \in 1..5 |-> "cleared"],
                       !.slots[outp.j].by =
                           [n \in 1..5 |-> IF outp.slots[outp.j].st[n] = "live"
                                           THEN "bs_init" ELSE "twice"],
                       !.fault = @ \/ \E n \in 1..5 :
                                         outp.slots[outp.j].st[n] # "live",
                       !.j = @ + 1]
               ELSE [outp EXCEPT !.j = @ + 1]
    /\ UNCHANGED <<mainVars, inp, op>>

\* line 148: free(tmp)
ScratchFree ==
    /\ op = "cleanup"
    /\ outp.j >= inp.depth - 1
    /\ op' = "freed"
    /\ UNCHANGED <<mainVars, inp, outp>>

ScratchNext ==
    \/ ScratchAlloc
    \/ ScratchStep
    \/ ScratchReturn
    \/ ScratchCleanup
    \/ ScratchFree

\* main, and bs_init on its own
ReleaseInit == Init \/ ScratchInit

ReleaseNext == Next \/ ScratchNext

SpecRelease == ReleaseInit /\ [][ReleaseNext]_vars

\* the merges in which shard j was the right operand
MergedAway(j) == {mg \in merged : mg[2] + mg[1] = j}

\* the integers of the stacks: each one cleared once, never used afterwards;
\* shard j > 0 in the one merge that has it on the right, shard 0 after the
\* reduction (G before the conversion, P and Q in it)
StacksReleasedOnce ==
    /\ ~fault
    /\ \A j \in DOMAIN pstack :
          /\ Cardinality(MergedAway(j)) <= 1
          /\ j > 0 =>
                /\ pstack[j] = Cleared <=> MergedAway(j) # {}
                /\ qstack[j] = Cleared <=> MergedAway(j) # {}
                /\ gstack[j] = Cleared <=> MergedAway(j) # {}
    /\ MergedAway(0) = {}
    /\ (pstack # << >> /\ gstack[0] = Cleared) =>
          pc \in {"convert", "final", "div_sqrt", "mul", "output", "exit"}
    /\ (pstack # << >> /\ (pstack[0] = Cleared \/ qstack[0] = Cleared)) =>
          /\ pc \in {"final", "div_sqrt", "mul", "output", "exit"}
          /\ pstack[0] = Cleared /\ qstack[0] = Cleared
    /\ (pc = "exit" /\ exit_status = 0) =>
          \A j \in DOMAIN pstack :
              pstack[j] = Cleared /\ qstack[j] = Cleared /\ gstack[j] = Cleared

\* bs_init is running on its own
InBsInit == op \in {"bs", "cleanup", "freed"}

\* every part of tmp[j] has been released, by who
ReleasedBy(j, who) == /\ outp.slots[j].st = [n \in 1..5 |-> "cleared"]
                      /\ outp.slots[j].by = [n \in 1..5 |-> who]

\* C19 as stated: every integer of the stacks and every scratch slot is
\* released once and not used afterwards; slot 0 is released in the
\* top-level bs after its last use, marked cleared and skipped by bs_init,
\* and the other slots are released by bs_init only
C19_SlotZeroInBs ==
    /\ StacksReleasedOnce
    /\ InBsInit => ~outp.fault
    /\ (op = "cleanup" /\ inp.depth > 1) =>
          outp.slots[0].cleared = 1 /\ ReleasedBy(0, "bs")
    /\ op = "freed" =>
          \A j \in DOMAIN outp.slots :
              ReleasedBy(j, IF j = 0 THEN "bs" ELSE "bs_init")

\* C19: every integer of the stacks and every part of every scratch slot is
\* released once and not used afterwards; when the range of bs_init has more
\* than one term slot 0 is released in the top-level bs after its last use,
\* marked cleared and skipped by bs_init; the other slots, and slot 0 when
\* the range is one term, are released by bs_init only
C19_ReleasedOnce ==
    /\ StacksReleasedOnce
    /\ InBsInit => ~outp.fault
    /\ InBsInit => \A j \in DOMAIN outp.slots :
                      j > 0 => outp.slots[j].cleared = 0
    /\ op = "bs" =>
          \A j \in DOMAIN outp.slots :
              j > 0 => outp.slots[j].st = [n \in 1..5 |-> "live"]
    /\ (op = "cleanup" /\ inp.depth > 1) =>
          IF inp.b - inp.a > 1
          THEN outp.slots[0].cleared = 1 /\ ReleasedBy(0, "bs")
          ELSE outp.slots[0].cleared = 0
               /\ (outp.j = 0 => outp.slots[0].st = [n \in 1..5 |-> "live"])
    /\ op = "freed" =>
          \A j \in DOMAIN outp.slots :
              ReleasedBy(j, IF j = 0 /\ inp.b - inp.a > 1 THEN "bs" ELSE "bs_init")

\* a bs_init over several terms that used three slots has freed them
C19_Witness ==
    /\ op = "freed" /\ inp.depth = 4 /\ inp.b - inp.a > 2
    /\ ReleasedBy(0, "bs") /\ ReleasedBy(2, "bs_init")

\* ------------------------------------------------------------------------
\* make_prime (extra/prime5.cpp): a limb (num_frag_t) is its bits, the least
\* significant first, of the width GMP_LIMB_BITS of the build
\* ------------------------------------------------------------------------

MaxPrimeN == 70

\* GMP_LIMB_BITS
LimbWidths == {32, 64}

\* ~static_cast<num_frag_t>(0)
Ones(w) == [b \in 1..w |-> 1]

\* x >> s for 0 <= s < w
ShiftRight(x, s, w) == [b \in 1..w |-> IF b + s <= w THEN x[b + s] ELSE 0]

\* a defective make_prime: the top limb shifted by n % w
make_prime_low(n, w) ==
    LET len == (n + w - 1) \div w
        p   == [i \in 1..len |-> Ones(w)]
    IN  IF n % w # 0
        THEN [p EXCEPT ![len] = ShiftRight(Ones(w), n % w, w)]
        ELSE p

\* make_prime(n, p) for limbs of w bits: what it leaves in p
make_prime(n, w) ==
    LET len == (n + w - 1) \div w
        p   == [i \in 1..len |-> Ones(w)]
    IN  IF n % w # 0
        THEN [p EXCEPT ![len] = ShiftRight(Ones(w), w - (n % w), w)]
        ELSE p

PrimeInit ==
    /\ MainIdle
    /\ op = "call"
    /\ inp \in [n : 1..MaxPrimeN, w : LimbWidths]
    /\ outp = << >>

MakePrime ==
    /\ op = "call"
    /\ op' = "make_prime"
    /\ outp' = make_prime(inp.n, inp.w)
    /\ UNCHANGED <<mainVars, inp>>

PrimeNext == MakePrime

SpecPrime == PrimeInit /\ [][PrimeNext]_vars

\* the bits of a limb vector, the least significant first
VecBits(p, w) ==
    [t \in 1..(Len(p) * w) |-> p[((t - 1) \div w) + 1][((t - 1) % w) + 1]]

\* bits[lo], .., bits[hi] as a number below LimbBase (hi - lo < 15)
RECURSIVE BitsNat(_, _, _)
BitsNat(bits, lo, hi) ==
    IF lo > hi \/ lo > Len(bits) THEN 0
    ELSE bits[lo] + 2 * BitsNat(bits, lo + 1, hi)

\* the number with these bits, in limbs of base LimbBase = 2^15
MagOfBits(bits) ==
    MagTrim([i \in 1..((Len(bits) + 14) \div 15) |->
                 BitsNat(bits, (15 * (i - 1)) + 1, 15 * i)])

\* 2^n
MagPow2(n) == [i \in 1..(n \div 15) |-> 0] \o <<2^(n % 15)>>

\* the bits of limb x set below position c and clear from there on
LowBitsSet(x, c) == \A b \in DOMAIN x : x[b] = IF b <= c THEN 1 ELSE 0

\* C20: for n > 0 make_prime leaves ceil(n/w) limbs, the least significant
\* first, whose value is 2^n - 1: every limb all ones, but the top one with
\* its n mod w low bits set alone when w does not divide n
C20_MakePrimeValue ==
    op = "make_prime" =>
        /\ Len(outp) = (inp.n + inp.w - 1) \div inp.w
        /\ Len(outp) * inp.w >= inp.n /\ (Len(outp) - 1) * inp.w < inp.n
        /\ \A i \in 1..(Len(outp) - 1) : LowBitsSet(outp[i], inp.w)
        /\ LowBitsSet(outp[Len(outp)],
                      IF inp.n % inp.w = 0 THEN inp.w ELSE inp.n % inp.w)
        /\ MagOfBits(VecBits(outp, inp.w))
              = MagSub(MagPow2(inp.n), MagOfNat(1))

\* 2^61 - 1 on limbs of 32 bits: two limbs, the top one with 29 bits set
C20_Witness ==
    /\ op = "make_prime" /\ inp = [n |-> 61, w |-> 32]
    /\ Len(outp) = 2 /\ outp[2][29] = 1 /\ outp[2][30] = 0

\* ------------------------------------------------------------------------
\* One call of bs followed through its recursion: the calls in the order
\* they return, each with the range and the level it was given, what its
\* two recursive calls left (L in p1 .. fg1, R in tmp[j]), what
\* fac_remove_gcd made of them and what the call leaves in p1 .. fg1.  gt is
\* the set of terms whose g went into the G the call leaves.
\* ------------------------------------------------------------------------

Last(sq) == sq[Len(sq)]

\* level < 4: fac_remove_gcd is not called
NoGcd(L, R) == [p |-> R.p, fp |-> R.fp, g |-> L.g, fg |-> L.fg,
                gcd |-> Zero, fmul |-> << >>]

\* if (level >= 4) fac_remove_gcd(pj, fpj, g1, fg1, gcd, fmul)
BsGcd(L, R, level) ==
    IF level >= 4 THEN fac_remove_gcd(R.p, R.fp, L.g, L.fg) ELSE NoGcd(L, R)

\* the product of the factors fac_remove_gcd has divided out of the G that
\* the call leaves, and out of the G's it was multiplied from
GcdTaken(ln, hn, b, tm, level) ==
    LET c == BsGcd(ln.r, hn.r, level)
        d == IF c.fmul = << >> THEN ln.gd ELSE mpz_mul(ln.gd, c.gcd)
    IN  IF b < tm THEN mpz_mul(d, hn.gd) ELSE d

RECURSIVE bs_calls(_, _, _, _, _)
bs_calls(s, a, b, tm, level) ==
    IF b - a = 1
    THEN LET r == bs_base(s, b)
         IN  <<[kind |-> "base", a |-> a, b |-> b, level |-> level,
                L |-> r, R |-> r, c |-> NoGcd(r, r), r |-> r, gt |-> {b},
                Lgt |-> {}, Rgt |-> {}, gd |-> mpz_set_ui(1)]>>
    ELSE IF bs_mid(a, b) <= a \/ bs_mid(a, b) >= b
    THEN \* a recursive call gets the range it was called from: no return
         LET r == bs_base(s, b)
         IN  <<[kind |-> "loop", a |-> a, b |-> b, level |-> level,
                L |-> r, R |-> r, c |-> NoGcd(r, r), r |-> r, gt |-> {},
                Lgt |-> {}, Rgt |-> {}, gd |-> mpz_set_ui(1)]>>
    ELSE LET l == bs_calls(s, a, bs_mid(a, b), tm, level + 1)
         IN  IF Last(l).kind = "loop" THEN l
             ELSE LET h == bs_calls(s, bs_mid(a, b), b, tm, level + 1)
                  IN  IF Last(h).kind = "loop" THEN l \o h
                      ELSE l \o h \o
                           <<[kind |-> "split", a |-> a, b |-> b, level |-> level,
                              L |-> Last(l).r, R |-> Last(h).r,
                              c |-> BsGcd(Last(l).r, Last(h).r, level),
                              r |-> bs_merge(Last(l).r, Last(h).r, b, tm, level),
                              gt |-> IF b < tm THEN Last(l).gt \cup Last(h).gt
                                     ELSE Last(l).gt,
                              Lgt |-> Last(l).gt, Rgt |-> Last(h).gt,
                              gd |-> GcdTaken(Last(l), Last(h), b, tm, level)]>>

\* ranges [a, b) of up to MaxSplitTerms terms, split from these levels, and
\* single terms up to MaxBaseTerm
MaxSplitTerms == 7
MaxBaseTerm == 40

SplitLevels == {0, 2, 4}

SplitInit ==
    /\ MainIdle
    /\ op = "call bs"
    /\ inp \in {x \in [a : 0..MaxSplitTerms, b : 1..MaxSplitTerms,
                       tm : 1..MaxSplitTerms, level : SplitLevels] :
                   x.a < x.b /\ x.b <= x.tm}
               \cup {[a |-> b0 - 1, b |-> b0, tm |-> b0, level |-> 0] :
                        b0 \in (MaxSplitTerms + 1)..MaxBaseTerm}
    /\ outp = << >>

\* bs(p1, q1, g1, fp1, fg1, a, b, terms, level, ...)
BsCall ==
    /\ op = "call bs"
    /\ op' = "bs"
    /\ outp' = bs_calls(TheSieve(inp.tm), inp.a, inp.b, inp.tm, inp.level)
    /\ UNCHANGED <<mainVars, inp>>

SplitNext == BsCall

SpecSplit == SplitInit /\ [][SplitNext]_vars

\* fac_remove_gcd on its own and inside bs
GcdInit == FacInit \/ SplitInit

GcdNext == FacNext \/ SplitNext

SpecGcd == GcdInit /\ [][GcdNext]_vars

\* x^n, exact
RECURSIVE ZPow(_, _)
ZPow(x, n) == IF n = 0 THEN mpz_set_ui(1) ELSE mpz_mul_ui(ZPow(x, n - 1), x)

\* the product of fac^pow over the entries of f, with no machine arithmetic
RECURSIVE FacExact(_)
FacExact(f) ==
    IF f = << >> THEN mpz_set_ui(1)
    ELSE mpz_mul(ZPow(Head(f).fac, Head(f).pow), FacExact(Tail(f)))

\* strictly increasing primes, exponents > 0
FacNormal(f) ==
    /\ \A n \in 1..Len(f) : f[n].pow > 0
    /\ \A n \in 1..(Len(f) - 1) : f[n].fac < f[n + 1].fac

\* the primes of both fp and fg, each with the smaller of its two exponents
Shared(fp, fg) ==
    SelectSeq([n \in 1..Len(fp) |->
                  [fac |-> fp[n].fac, pow |-> min(fp[n].pow, FacPow(fg, fp[n].fac))]],
              LAMBDA e : e.pow > 0)

\* what fac_remove_gcd(p, fp, g, fg) has to leave, c being what it left
GcdContract(p, fp, g, fg, c) ==
    LET sh == Shared(fp, fg)
    IN  IF sh = << >>
        THEN c.p = p /\ c.g = g /\ c.fp = fp /\ c.fg = fg
        ELSE /\ c.gcd = FacExact(sh)
             /\ c.fmul = sh
             /\ mpz_mul(c.p, c.gcd) = p
             /\ mpz_mul(c.g, c.gcd) = g
             /\ FacNormal(c.fp) /\ FacNormal(c.fg)
             /\ \A n \in 1..Len(fp) :
                   FacPow(c.fp, fp[n].fac) = fp[n].pow - FacPow(sh, fp[n].fac)
             /\ \A n \in 1..Len(fg) :
                   FacPow(c.fg, fg[n].fac) = fg[n].pow - FacPow(sh, fg[n].fac)
             /\ Len(c.fp) <= Len(fp) /\ Len(c.fg) <= Len(fg)

\* the calls of bs in outp that called fac_remove_gcd
GcdCalls == {n \in 1..Len(outp) : outp[n].kind = "split" /\ outp[n].level >= 4}

\* C21: fac_remove_gcd(p, fp, g, fg) computes d, the product over the primes
\* of both fp and fg of prime^(the smaller exponent), and leaves p/d and g/d
\* with no remainder and fp, fg with these exponents taken off and compacted;
\* with no common prime it leaves p, g, fp, fg as they were.  This holds of
\* any factored integers and of every call bs makes, where d divides both
\* integers
C21_RemoveGcd ==
    /\ op = "fac_remove_gcd" =>
          GcdContract(mpz_mul_ui(FacExact(inp.f), 2), inp.f, FacExact(inp.g), inp.g,
                      outp)
    /\ op = "bs" =>
          \A n \in GcdCalls :
              /\ GcdContract(outp[n].R.p, outp[n].R.fp, outp[n].L.g, outp[n].L.fg,
                             outp[n].c)
              /\ mpz_rem_is_zero(outp[n].R.p, FacExact(Shared(outp[n].R.fp, outp[n].L.fg)))
              /\ mpz_rem_is_zero(outp[n].L.g, FacExact(Shared(outp[n].R.fp, outp[n].L.fg)))

\* a call inside bs found a common factor and divided by it
C21_Witness ==
    /\ op = "bs"
    /\ \E n \in GcdCalls :
          /\ outp[n].c.fmul # << >>
          /\ outp[n].c.p # outp[n].R.p /\ outp[n].c.g # outp[n].L.g
          /\ Len(outp[n].c.fg) < Len(outp[n].L.fg)

\* the calls of bs in outp that returned
Returned == {n \in 1..Len(outp) : outp[n].kind # "loop"}

\* the exponent of 2 in t
RECURSIVE TwoAdic(_)
TwoAdic(t) == IF t % 2 = 0 THEN 1 + TwoAdic(t \div 2) ELSE 0

\* the exponent of 2 in the P of the terms a+1 .. b: C^3/24 = 2^15 * 3^2 *
\* 5^3 * 23^3 * 29^3 for each term t, next to t^3
RECURSIVE TwoInP(_, _)
TwoInP(a, b) == IF a >= b THEN 0 ELSE 15 + 3 * TwoAdic(b) + TwoInP(a, b - 1)

\* C22 as stated: after every bs call the twins of P and of G evaluate to
\* the integers P and G of the same triple
C22_TwinsExact ==
    op = "bs" =>
        \A n \in Returned :
            /\ FacExact(outp[n].r.fp) = outp[n].r.p
            /\ FacExact(outp[n].r.fg) = outp[n].r.g

\* C22: after every bs call the twin of G evaluates to the integer G of the
\* same triple, and the twin of P to the odd part of the integer P: P is
\* that value times 2^e, e the sum of 15 + 3 * (exponent of 2 in t) over the
\* terms t of the range
C22_TwinsOdd ==
    op = "bs" =>
        \A n \in Returned :
            /\ FacExact(outp[n].r.fg) = outp[n].r.g
            /\ FacNormal(outp[n].r.fp)
            /\ \A e \in 1..Len(outp[n].r.fp) : outp[n].r.fp[e].fac % 2 = 1
            /\ mpz_mul(FacExact(outp[n].r.fp),
                       Z(FALSE, MagPow2(TwoInP(outp[n].a, outp[n].b))))
                 = outp[n].r.p

\* a split that removed a common factor has returned, over a range with a
\* term divisible by 4
C22_Witness ==
    /\ op = "bs"
    /\ \E n \in GcdCalls : /\ outp[n].c.fmul # << >>
                           /\ outp[n].a < 4 /\ outp[n].b >= 4
                           /\ FacExact(outp[n].r.fp) # outp[n].r.p

\* ------------------------------------------------------------------------
\* The buffers of the factored integers of one bs_init: fp1, fg1 (slot -1
\* below), tmp[j].fp, tmp[j].fg, ftmp and fmul, each with the max_facs it
\* was allocated with.  fac_mul swaps the buffer of its result with fmul, so
\* the capacities travel; st is [caps, ok, made, grown]: the capacities, no
\* write went past a capacity so far, the factored integers written so far,
\* and whether fac_resize had to allocate
\* ------------------------------------------------------------------------

INIT_FACS == 32

\* fac_init
BufsInit(d) ==
    [caps  |-> [fp   |-> [j \in (0 - 1)..d |-> INIT_FACS],
                fg   |-> [j \in (0 - 1)..d |-> INIT_FACS],
                ftmp |-> [j \in {0} |-> INIT_FACS],
                fmul |-> [j \in {0} |-> INIT_FACS]],
     ok    |-> TRUE,
     made  |-> {},
     grown |-> FALSE]

Ftmp == <<"ftmp", 0>>
Fmul == <<"fmul", 0>>

Cap(st, x) == st.caps[x[1]][x[2]]

\* a defective fac_resize: the buffer is never replaced by a larger one
fac_resize_never(cap, s) == cap

\* fac_resize(f, s), fac_init_size: max_facs of f afterwards
fac_resize(cap, s) == IF cap < s THEN max(s, INIT_FACS) ELSE cap

\* the entries of f are written into the buffer x from its start
BufWrite(st, x, f) ==
    [st EXCEPT !.ok = @ /\ Len(f) <= Cap(st, x), !.made = @ \cup {f}]

\* fac_resize(fmul, s)
BufResize(st, s) ==
    [st EXCEPT !.caps.fmul[0] = fac_resize(@, s),
               !.grown = @ \/ Cap(st, Fmul) < s]

\* fac_mul(x, y, fmul), x holding f and y holding g
BufMul(st, x, f, g) ==
    LET s1 == BufWrite(BufResize(st, Len(f) + Len(g)), Fmul, fac_mul2(f, g))
    IN  [s1 EXCEPT !.caps[x[1]][x[2]] = Cap(s1, Fmul),
                   !.caps.fmul[0] = Cap(s1, x)]

\* fac_mul_bp(x, base, pow, ftmp, fmul), x holding f
BufMulBp(st, x, f, t) == BufMul(BufWrite(st, Ftmp, t), x, f, t)

\* fac_remove_gcd on x holding fp and y holding fg; c is what it left
BufGcd(st, x, fp, y, fg, c) ==
    LET s1 == BufWrite(BufResize(st, min(Len(fp), Len(fg))), Fmul, c.fmul)
    IN  IF c.fmul = << >> THEN s1
        ELSE BufWrite(BufWrite(s1, x, c.fp), y, c.fg)

\* the base case: fp1 and fg1 are the buffers of slot o
BufBase(s, b, o, st) ==
    LET f1 == fac_set_bp(s, OddPart(b), 3)
        t1 == fac_set_bp(s, OddC, 3)
        f2 == fac_mul2(f1, t1)
        s1 == BufMulBp(BufWrite(st, <<"fp", o>>, f1), <<"fp", o>>, f1, t1)
        s2 == BufWrite(s1, <<"fp", o>>, [f2 EXCEPT ![1].pow = @ - 1])
        g1 == fac_set_bp(s, 2 * b - 1, 1)
        t2 == fac_set_bp(s, 6 * b - 1, 1)
        g2 == fac_mul2(g1, t2)
        t3 == fac_set_bp(s, 6 * b - 5, 1)
        s3 == BufMulBp(BufWrite(s2, <<"fg", o>>, g1), <<"fg", o>>, g1, t2)
    IN  BufMulBp(s3, <<"fg", o>>, g2, t3)

\* bs with p1 .. fg1 in slot o and tmp[j] the next free slot: the triple it
\* leaves and the buffers afterwards
RECURSIVE bs_bufs(_, _, _, _, _, _, _, _)
bs_bufs(s, a, b, tm, level, o, j, st) ==
    IF b - a = 1
    THEN [r |-> bs_base(s, b), st |-> BufBase(s, b, o, st)]
    ELSE LET l  == bs_bufs(s, a, bs_mid(a, b), tm, level + 1, o, j, st)
             h  == bs_bufs(s, bs_mid(a, b), b, tm, level + 1, j, j + 1, l.st)
             c  == BsGcd(l.r, h.r, level)
             s1 == IF level >= 4
                   THEN BufGcd(h.st, <<"fp", j>>, h.r.fp, <<"fg", o>>, l.r.fg, c)
                   ELSE h.st
             s2 == BufMul(s1, <<"fp", o>>, l.r.fp, c.fp)
             s3 == IF b < tm THEN BufMul(s2, <<"fg", o>>, c.fg, h.r.fg) ELSE s2
         IN  [r |-> bs_merge(l.r, h.r, b, tm, level), st |-> s3]

\* the ranges of SplitInit, and [0, n) of n+1 terms for the three n up to
\* MaxBufTerms
MaxBufTerms == 26

BufInit ==
    /\ MainIdle
    /\ op = "call bs_init"
    /\ inp \in {x \in [a : 0..MaxSplitTerms, b : 1..MaxSplitTerms,
                       tm : 1..MaxSplitTerms, level : SplitLevels] :
                   x.a < x.b /\ x.b <= x.tm}
               \cup {[a |-> 0, b |-> n, tm |-> n + 1, level |-> 0] :
                        n \in (MaxBufTerms - 2)..MaxBufTerms}
    /\ outp = << >>

\* bs_init: the fac_init calls, then bs(.., fp1, fg1, a, b, .., tmp, 0, 1)
BufCall ==
    /\ op = "call bs_init"
    /\ op' = "bs_init"
    /\ outp' = bs_bufs(TheSieve(inp.tm), inp.a, inp.b, inp.tm, inp.level, 0 - 1, 0,
                       BufsInit(CeilLog2(inp.tm))).st
    /\ UNCHANGED <<mainVars, inp>>

BufNext == BufCall

SpecBuf == BufInit /\ [][BufNext]_vars

\* C23: every factored integer that fac_set_bp, fac_mul2 / fac_mul,
\* fac_mul_bp, fac_remove_gcd and fac_compact leave during a binary split,
\* and the twin of P after the decrement of its first exponent, has strictly
\* increasing primes and exponents > 0, and is never longer than the
\* max_facs of the buffer it is written to
C23_FacNormalFits ==
    op = "bs_init" =>
        /\ outp.ok
        /\ \A f \in outp.made : FacNormal(f)
        /\ \A x \in {"fp", "fg", "ftmp", "fmul"} :
              \A j \in DOMAIN outp.caps[x] : outp.caps[x][j] >= INIT_FACS

\* a split wrote a factored integer of more than INIT_FACS entries, after
\* fac_resize had allocated a larger buffer
C23_Witness ==
    /\ op = "bs_init"
    /\ outp.grown
    /\ \E f \in outp.made : Len(f) > INIT_FACS
    /\ \E j \in DOMAIN outp.caps.fg : outp.caps.fg[j] > INIT_FACS

\* ------------------------------------------------------------------------
\* What a G stands for: main with the reduction tree, and bs on its own
\* ------------------------------------------------------------------------

GInit == Init \/ SplitInit

GNext == Next \/ SplitNext

SpecG == GInit /\ [][GNext]_vars

\* the terms of the range sp = <<a, b>>
TermSet(sp) == (sp[1] + 1)..sp[2]

\* g(t-1, t) = (6t-5)(2t-1)(6t-1)
GOfTerm(t) ==
    mpz_mul_ui(mpz_mul_ui(mpz_set_ui(6 * t - 5), 2 * t - 1), 6 * t - 1)

\* the product of g over the terms lo .. hi
RECURSIVE GProduct(_, _)
GProduct(lo, hi) ==
    IF lo > hi THEN mpz_set_ui(1) ELSE mpz_mul(GProduct(lo, hi - 1), GOfTerm(hi))

\* the splits of bs in outp
Splits == {n \in 1..Len(outp) : outp[n].kind = "split"}

\* the G read by the merge of sum(i, i+k) that is running: gstack[i] by the
\* third task, and gstack[i+k] with gflag
GReadComplete(i) ==
    /\ gterms[i] = TermSet(span[i])
    /\ GFlag(i) => gterms[i + k] = TermSet(span[i + k])

\* C24: a merge of bs or of the reduction tree that reads the G of its left
\* operand, or with b < terms (gflag) the G of its right operand, reads the
\* product of g over the whole range of that operand divided by the factors
\* fac_remove_gcd has taken out of it; a G stands for less than its range only where
\* the range ends at the last term, and such a G is read by no later merge
C24_GComplete ==
    /\ pc = "sum" =>
          \A i \in Shards : merge[i] = "tasks" => GReadComplete(i)
    /\ \A i \in DOMAIN leaf \cap DOMAIN gterms :
          (leaf[i] = "done" /\ IsLive(gstack[i])
             /\ gterms[i] # TermSet(span[i])) => span[i][2] = terms
    /\ op = "bs" =>
          /\ \A n \in Splits :
                /\ outp[n].Lgt = (outp[n].a + 1)..bs_mid(outp[n].a, outp[n].b)
                /\ outp[n].b < inp.tm =>
                      outp[n].Rgt = (bs_mid(outp[n].a, outp[n].b) + 1)..outp[n].b
          /\ \A n \in Returned :
                /\ outp[n].gt # TermSet(<<outp[n].a, outp[n].b>>) =>
                      outp[n].b = inp.tm
                /\ \E x \in outp[n].a..outp[n].b :
                      /\ outp[n].gt = (outp[n].a + 1)..x
                      /\ mpz_mul(outp[n].r.g, outp[n].gd) = GProduct(outp[n].a + 1, x)

\* C24 as stated: the G of the left operand that a split of bs reads is
\* the product of g over the operand's range
C24_GExact ==
    op = "bs" =>
        \A n \in Splits :
            outp[n].L.g = GProduct(outp[n].a + 1, bs_mid(outp[n].a, outp[n].b))

\* a split of bs has read a left G of all the terms of its operand from
\* which a common factor had been divided out further down
C24_Witness ==
    /\ op = "bs"
    /\ \E n \in Splits :
          /\ outp[n].Lgt = (outp[n].a + 1)..bs_mid(outp[n].a, outp[n].b)
          /\ outp[n].L.g # GProduct(outp[n].a + 1, bs_mid(outp[n].a, outp[n].b))
          /\ outp[n].b < inp.tm

\* widths up to MaxMidWidth are split
MaxMidWidth == 300

\* the base cases of bs in outp
Bases == {n \in 1..Len(outp) : outp[n].kind = "base"}

\* C25: a range of two terms or more is split at a mid strictly inside it,
\* so both recursive calls get a smaller range that is not empty; bs on a
\* range with a < b returns, and each term of the range is the term of
\* exactly one base case
C25_SplitInside ==
    /\ \A w \in 2..MaxMidWidth : 0 < bs_mid(0, w) /\ bs_mid(0, w) < w
    /\ op = "bs" =>
          /\ \A n \in 1..Len(outp) : outp[n].kind # "loop"
          /\ Last(outp).a = inp.a /\ Last(outp).b = inp.b
          /\ \A n \in Splits :
                /\ outp[n].a < bs_mid(outp[n].a, outp[n].b)
                /\ bs_mid(outp[n].a, outp[n].b) < outp[n].b
                /\ bs_mid(outp[n].a, outp[n].b) - outp[n].a
                      = bs_mid(0, outp[n].b - outp[n].a)
          /\ \A n \in Bases : outp[n].b - outp[n].a = 1
          /\ \A t \in (inp.a + 1)..inp.b :
                Cardinality({n \in Bases : outp[n].b = t}) = 1
          /\ Cardinality(Bases) = inp.b - inp.a
          /\ Cardinality(Splits) = inp.b - inp.a - 1

\* a range of seven terms has been split down to its seven base cases, the
\* first split leaving three terms on the left and four on the right
C25_Witness ==
    /\ op = "bs" /\ inp.b - inp.a = MaxSplitTerms
    /\ Cardinality(Bases) = MaxSplitTerms
    /\ bs_mid(inp.a, inp.b) - inp.a = (MaxSplitTerms * 54) \div 100

\* A + B*b
LinearTerm(b) == mpz_add(mpz_mul(mpz_set_ui(B), mpz_set_ui(b)), mpz_set_ui(A))

\* C26: for the single term b, bs leaves G = (6b-5)(2b-1)(6b-1), here as
\* the polynomial 72b^3 - 108b^2 + 46b - 5, P = b^3 * C^3 / 24 and
\* Q = (-1)^b * G * (A + B*b), negative exactly when b is odd
C26_BaseCase ==
    op = "bs" =>
        \A n \in Bases :
            LET b == outp[n].b
                r == outp[n].r
            IN  /\ r.g = mpz_set_ui(72 * b * b * b - 108 * b * b + 46 * b - 5)
                /\ r.g = GOfTerm(b)
                /\ mpz_mul_ui(r.p, 24) = mpz_mul(ZPow(b, 3), ZPow(C, 3))
                /\ r.p = mpz_mul(ZPow(b, 3),
                                 mpz_mul_ui(mpz_mul_ui(mpz_set_ui(C \div 24), C), C))
                /\ r.q.mag = mpz_mul(r.g, LinearTerm(b)).mag
                /\ r.q.mag # << >>
                /\ r.q.neg <=> b % 2 = 1

\* the base cases of an odd and of an even term beyond the first have
\* returned
C26_Witness ==
    /\ op = "bs"
    /\ \E n1, n2 \in Bases :
          /\ outp[n1].b = 5 /\ outp[n1].r.q.neg
          /\ outp[n2].b = 6 /\ ~outp[n2].r.q.neg
          /\ outp[n2].r.g = mpz_set_ui(31 * 11 * 35)

\* ------------------------------------------------------------------------
\* The working precisions of my_div and my_sqrt_ui (pgmp-chudnovsky.h): inp
\* is the function and prec0 = mpf_get_prec(r); outp holds prec and bits,
\* the precisions the halving went through (trail), the precisions set with
\* mpf_set_prec_raw (work) and what has been counted
\* ------------------------------------------------------------------------

DOUBLE_PREC == 53

MaxPrec0 == 2000

PrecFns == {"my_div", "my_sqrt_ui"}

PrecInit ==
    /\ MainIdle
    /\ op = "call prec"
    /\ inp \in [fn : PrecFns, prec0 : 1..MaxPrec0]
    /\ outp = << >>

PrecStart == [prec |-> inp.prec0, bits |-> 0, trail |-> <<inp.prec0>>,
              work |-> {}, halvings |-> 0, doublings |-> 0, steps |-> 0,
              finals |-> 0, assigned |-> 0, direct |-> FALSE]

\* if (prec0<=DOUBLE_PREC) { mpf_set_d(r, ...); return; }
PrecDirect ==
    /\ op = "call prec"
    /\ inp.prec0 <= DOUBLE_PREC
    /\ op' = "return"
    /\ outp' = [PrecStart EXCEPT !.assigned = 1, !.direct = TRUE]
    /\ UNCHANGED <<mainVars, inp>>

\* bits = 0; for (prec=prec0; ...
PrecEnter ==
    /\ op = "call prec"
    /\ inp.prec0 > DOUBLE_PREC
    /\ op' = "halve"
    /\ outp' = PrecStart
    /\ UNCHANGED <<mainVars, inp>>

\* a defective halve: the half rounded down
halve_down(prec) == prec \div 2

\* int bit = prec&1; prec = (prec+bit)/2;
halve(prec) == (prec + (prec % 2)) \div 2

\* one iteration of the for loop: prec>DOUBLE_PREC
PrecHalve ==
    /\ op = "halve"
    /\ outp.prec > DOUBLE_PREC
    /\ outp' = [outp EXCEPT !.prec = halve(outp.prec),
                            !.bits = 2 * @ + (outp.prec % 2),
                            !.trail = Append(@, halve(outp.prec)),
                            !.halvings = @ + 1]
    /\ UNCHANGED <<mainVars, inp, op>>

\* the for loop ends; mpf_set_prec_raw(t1, DOUBLE_PREC) and the seed
PrecSeed ==
    /\ op = "halve"
    /\ outp.prec <= DOUBLE_PREC
    /\ op' = "newton"
    /\ outp' = [outp EXCEPT !.work = @ \cup {DOUBLE_PREC}]
    /\ UNCHANGED <<mainVars, inp>>

\* while (prec<prec0) { prec *= 2; if (prec<prec0) { the step at prec and
\* prec/2 } ... prec -= (bits&1); bits /= 2; }
PrecStep ==
    /\ op = "newton"
    /\ outp.prec < inp.prec0
    /\ 2 * outp.prec < inp.prec0
    /\ outp' = [outp EXCEPT !.prec = 2 * @ - (outp.bits % 2),
                            !.bits = @ \div 2,
                            !.work = @ \cup {2 * outp.prec, outp.prec},
                            !.doublings = @ + 1,
                            !.steps = @ + 1]
    /\ UNCHANGED <<mainVars, inp, op>>

\* the loop is left.  my_div: by the else branch, which sets prec = prec0,
\* makes the correction that assigns r and breaks, or by the test of the
\* while, after which nothing assigns r.  my_sqrt_ui: by the break of the
\* else branch or by the test, with the correction that assigns r after the
\* loop in both cases
PrecFinal ==
    /\ op = "newton"
    /\ ~(outp.prec < inp.prec0 /\ 2 * outp.prec < inp.prec0)
    /\ op' = "return"
    /\ outp' =
          IF outp.prec < inp.prec0
          THEN [outp EXCEPT !.prec = IF inp.fn = "my_div" THEN inp.prec0
                                     ELSE 2 * @,
                            !.doublings = @ + 1,
                            !.work = @ \cup {inp.prec0 \div 2},
                            !.finals = @ + 1,
                            !.assigned = @ + 1]
          ELSE IF inp.fn = "my_div" THEN outp
          ELSE [outp EXCEPT !.work = @ \cup {inp.prec0 \div 2},
                            !.finals = @ + 1,
                            !.assigned = @ + 1]
    /\ UNCHANGED <<mainVars, inp>>

PrecNext ==
    \/ PrecDirect
    \/ PrecEnter
    \/ PrecHalve
    \/ PrecSeed
    \/ PrecStep
    \/ PrecFinal

SpecPrec == PrecInit /\ [][PrecNext]_vars

\* C27: for prec0 > 53 the halving with rounding up ends at a seed precision
\* in 27..53; the doubling less the recorded bit goes back through the
\* precisions of the halving one by one; every working precision set on the
\* way is below prec0; there are as many doublings as halvings and the
\* correction at prec0 is made once, so r is assigned.  For prec0 <= 53 r
\* is assigned directly
C27_PrecisionSchedule ==
    /\ op = "newton" =>
          /\ Last(outp.trail) \in 27..DOUBLE_PREC
          /\ outp.halvings = Len(outp.trail) - 1
          /\ outp.halvings >= 1
          /\ outp.steps < outp.halvings
          /\ outp.prec = outp.trail[Len(outp.trail) - outp.steps]
          /\ outp.prec < inp.prec0
          /\ \A w \in outp.work : w < inp.prec0
    /\ op = "return" =>
          IF inp.prec0 <= DOUBLE_PREC
          THEN outp.direct /\ outp.assigned = 1 /\ outp.halvings = 0
               /\ outp.finals = 0
          ELSE /\ ~outp.direct
               /\ outp.doublings = outp.halvings
               /\ outp.steps = outp.halvings - 1
               /\ outp.finals = 1
               /\ outp.assigned = 1
               /\ \A w \in outp.work : w < inp.prec0
               /\ inp.fn = "my_div" => outp.prec = inp.prec0

\* my_div has returned from a precision that was halved to an odd number
\* and to an even one on the way to its seed
C27_Witness ==
    /\ op = "return" /\ inp.fn = "my_div" /\ inp.prec0 = 1001
    /\ outp.trail = <<1001, 501, 251, 126, 63, 32>>
    /\ outp.doublings = 5 /\ outp.assigned = 1

\* ------------------------------------------------------------------------
\* The result of main against the sum with nothing cancelled
\* ------------------------------------------------------------------------

\* P, Q and G of the terms 1..tm of the run: the base case of every term and
\* the merge formula, no common factor removed and every G multiplied
RefTriple == TermsTriple(TheSieve(inp.tm), 0, inp.tm)

\* ref is r with P and Q multiplied by one positive integer c (c = 1 when
\* the P are the same)
ScaledBy(r, ref) ==
    IF r.p = ref.p THEN r.q = ref.q
    ELSE LET c == Z(FALSE, MagDivMod(ref.p.mag, r.p.mag)[1])
         IN  /\ c.mag # << >>
             /\ ref.p = mpz_mul(r.p, c)
             /\ ref.q = mpz_mul(r.q, c)

\* C28: with every thread count (t2 is any of them), P and Q of main are
\* the P and Q of the sum with nothing cancelled, both divided by one
\* positive integer, so Q/P is the same
C28_SameAsReference ==
    op = "main" =>
        LET ref == RefTriple
        IN  /\ SameRatio(outp.r2.p, outp.r2.q, ref.p, ref.q)
            /\ ScaledBy(outp.r2, ref)

\* eleven terms with eight threads: common factors were removed and P is
\* below the P of the reference; with one thread it is the same integer
C28_Witness ==
    /\ op = "main" /\ inp.tm = 11 /\ inp.t1 = 1 /\ inp.t2 = 8
    /\ RunCancels(inp.tm, inp.t2)
    /\ outp.r1.p = RefTriple.p
    /\ outp.r2.p # RefTriple.p
    /\ ScaledBy(outp.r2, RefTriple)

\* ------------------------------------------------------------------------
\* The scratch slots bs indexes, for any range of terms: inp is the range
\* and terms, outp the set of the indexes j of the tmp[j] that
\* bs(.., a, b, terms, 0, .., tmp, 0, 1) touches
\* ------------------------------------------------------------------------

MaxDepthTerms == 65

\* a defective depth: the last depth++ forgotten
main_depth_short(tm) == CeilLog2(tm)

\* depth = 0; while ((1L << depth) < terms) depth++; depth++;
main_depth(tm) == CeilLog2(tm) + 1

DepthInit ==
    /\ MainIdle
    /\ op = "call bs tmp"
    /\ inp \in {x \in [a : 0..(MaxDepthTerms - 1), b : 1..MaxDepthTerms,
                       tm : 1..MaxDepthTerms] : x.a < x.b /\ x.b <= x.tm}
    /\ outp = << >>

\* bs_init: tmp has depth - 1 slots; bs runs from j = 0
DepthCall ==
    /\ op = "call bs tmp"
    /\ op' = "bs tmp"
    /\ outp' = LET ev == bs_slots(0 - 1, inp.a, inp.b, inp.tm, 0, 0, 1)
               IN  {ev[n].slot : n \in DOMAIN ev}
    /\ UNCHANGED <<mainVars, inp>>

DepthNext == DepthCall

SpecDepth == DepthInit /\ [][DepthNext]_vars

\* C29: every index j of a tmp[j] that bs touches is one of the depth - 1
\* slots bs_init allocated for this terms, whatever range inside the terms
\* bs is given
C29_ScratchIndex ==
    op = "bs tmp" => \A j \in outp : 0 <= j /\ j < main_depth(inp.tm) - 1

\* all of 32 terms: depth is 6 and bs touches the last slot, tmp[4]
C29_Witness ==
    /\ op = "bs tmp" /\ inp.a = 0 /\ inp.b = 32 /\ inp.tm = 32
    /\ main_depth(inp.tm) = 6
    /\ outp = 0..4

\* ------------------------------------------------------------------------
\* The indexes into the sieve table: build_sieve row by row (one step per
\* iteration of its outer loop), then the fac_set_bp calls of bs's base
\* case term by term.  outp.idx holds the table indexes of the last step,
\* outp.bases the bases it passed to fac_set_bp, outp.top the largest value
\* one of its uint_t variables took
\* ------------------------------------------------------------------------

MaxIndexTerms == 24

\* a number of terms with terms*6 above 3*5*23*29+1
BigTerms == 1668

\* the table of BigTerms terms, built once
BigSieve == build_sieve(SieveSize(BigTerms))

IndexSieve(tm) == IF tm = BigTerms THEN BigSieve ELSE TheSieve(tm)

IndexInit ==
    /\ MainIdle
    /\ op = "call build_sieve"
    /\ inp \in [tm : (1..MaxIndexTerms) \cup {BigTerms}]
    /\ outp = << >>

\* sieve_size = max(..); sieve = malloc(sizeof(sieve_t)*sieve_size/2);
\* build_sieve: m = (uint_t) sqrt(n); memset; s[1/2].fac = 1; s[1/2].pow = 1
IndexAlloc ==
    /\ op = "call build_sieve"
    /\ op' = "build_sieve"
    /\ outp' = LET n == SieveSize(inp.tm)
               IN  [n |-> n, alloc |-> n \div 2, m |-> ISqrt(n), i |-> 3,
                    b |-> 0, idx |-> {1 \div 2}, bases |-> {}, top |-> n]
    /\ UNCHANGED <<mainVars, inp>>

\* the inner loop of build_sieve for the prime i: s[j/2] and s[k] of every
\* iteration (s[k] is read only when s[j/2].fac was 0)
InnerIndexes(i, n) ==
    UNION {{(i * i + 2 * i * t) \div 2, i \div 2 + t} :
              t \in 0..((n - i * i) \div (2 * i))}

\* s[i/2].fac == 0 when the outer loop reaches i: no smaller prime marked i,
\* which the finished table shows as fac = i
Unmarked(s, i) == (i \div 2) \in DOMAIN s /\ s[i \div 2].fac = i

\* one iteration of for (i=3; i<=n; i+=2)
IndexRow ==
    /\ op = "build_sieve"
    /\ outp.i <= outp.n
    /\ LET i     == outp.i
           inner == Unmarked(IndexSieve(inp.tm), i) /\ i <= outp.m
       IN  outp' = [outp EXCEPT
                      !.i = i + 2,
                      !.idx = {i \div 2} \cup
                              (IF inner THEN InnerIndexes(i, outp.n) ELSE {}),
                      !.top = IF inner
                              THEN max(i + 2, i * i + 2 * i *
                                       ((outp.n - i * i) \div (2 * i) + 1))
                              ELSE i + 2]
    /\ UNCHANGED <<mainVars, inp, op>>

\* build_sieve returns
IndexBuilt ==
    /\ op = "build_sieve"
    /\ outp.i > outp.n
    /\ op' = "bs"
    /\ outp' = [outp EXCEPT !.idx = {}, !.top = 0]
    /\ UNCHANGED <<mainVars, inp>>

\* for (i=0, base/=2; base>0; i++, base = sieve[base].nxt): the indexes read
RECURSIVE IndexChain(_, _, _)
IndexChain(s, idx, acc) ==
    IF idx = 0 THEN acc
    ELSE IF idx \notin DOMAIN s THEN acc \cup {idx}
    ELSE IndexChain(s, s[idx].nxt, acc \cup {idx})

\* the bases of the fac_set_bp and fac_mul_bp calls of bs's base case
BaseBases(b) == {OddPart(b), 3 * 5 * 23 * 29, 2 * b - 1, 6 * b - 1, 6 * b - 5}

\* the base case of bs for the term b = outp.b + 1 (every term 1..terms has
\* one)
IndexBase ==
    /\ op = "bs"
    /\ outp.b < inp.tm
    /\ LET b == outp.b + 1
       IN  outp' = [outp EXCEPT
                      !.b = b,
                      !.bases = BaseBases(b),
                      !.idx = UNION {IndexChain(IndexSieve(inp.tm), v \div 2, {}) :
                                        v \in BaseBases(b)},
                      !.top = 6 * b]
    /\ UNCHANGED <<mainVars, inp, op>>

IndexNext ==
    \/ IndexAlloc
    \/ IndexRow
    \/ IndexBuilt
    \/ IndexBase

SpecIndex == IndexInit /\ [][IndexNext]_vars

\* MAX_DIGITS of the LP64 build with a 32-bit uint_t: 10000000000
MAX_DIGITS_LP64 == ZPow(10, 10)

\* MAX_DIGITS of the _WIN64 build
MAX_DIGITS_WIN64 == 640000000

\* terms = digits/DIGITS_PER_ITER for a digits of any size, with
\* DIGITS_PER_ITER = 14181647462725477 / 10^15
TermsOfZ(dz) ==
    LET per == mpz_add(mpz_mul_ui(mpz_set_ui(14181647), 1000000000),
                       mpz_set_ui(462725477))
    IN  Z(FALSE, MagDivMod(mpz_mul(dz, ZPow(10, 15)).mag, per.mag)[1])

\* with the largest terms of each build whose uint_t has 32 bits, terms*6
\* is the sieve size, and the sieve size plus 2 * 2^16 (no row of
\* build_sieve goes above n + 2*m, and m*m <= n < 2^32) is below 2^32
FitsUint32 ==
    \A dz \in {mpz_set_ui(MAX_DIGITS), mpz_set_ui(MAX_DIGITS_WIN64), MAX_DIGITS_LP64} :
        LET n == mpz_mul_ui(TermsOfZ(dz), 6)
        IN  /\ MagCmp(n.mag, MagOfNat(OddC + 1)) > 0
            /\ MagCmp(mpz_add(n, mpz_set_ui(2 * 2^16)).mag,
                      ZPow(2, 32).mag) < 0

\* C30: every index of the table that build_sieve or fac_set_bp uses is
\* below sieve_size/2, the number of entries allocated; every base given to
\* fac_set_bp is odd and at most sieve_size; and no value computed on the
\* way goes above sieve_size + 2*sqrt(sieve_size), which is below 2^32 for
\* the terms of MAX_DIGITS digits
C30_IndexesInside ==
    /\ op \in {"build_sieve", "bs"} =>
          /\ \A x \in outp.idx : 0 <= x /\ x < outp.alloc
          /\ \A v \in outp.bases : v % 2 = 1 /\ 1 <= v /\ v <= outp.n
          /\ outp.m * outp.m <= outp.n
          /\ outp.top <= outp.n + 2 * outp.m
    /\ FitsUint32

\* the base case of a term reads the last entry of the table of
\* 3*5*23*29+1: the one of 3*5*23*29
C30_Witness ==
    /\ op = "bs" /\ outp.b = 2 /\ outp.n = OddC + 1
    /\ OddC \in outp.bases
    /\ (outp.alloc - 1) \in outp.idx

\* the table of 6*terms entries: its last row marks the last entry
C30_WitnessBig ==
    /\ op = "build_sieve" /\ inp.tm = BigTerms /\ outp.n = 6 * BigTerms
    /\ (outp.alloc - 1) \in outp.idx


=============================================================================
